---------------------------- MODULE Spec2Model ----------------------------
(***************************************************************************)
(* Model of ddl-indexarr's download lifecycle manager                      *)
(* (src/app/services/downloads.py), of the download-client facade that     *)
(* drives it (src/app/api/sabnzbd.py), of the agent adapter it polls       *)
(* (src/app/services/jdownloader.py) and of the background loop            *)
(* (src/app/main.py).                                                      *)
(*                                                                         *)
(* Strings that the code takes apart (titles, package names, the agent's   *)
(* status text) are sequences of one-character strings.  Each action is    *)
(* one task of the event loop running from one `await` on the agent        *)
(* adapter to the next; which task may run next is the event loop's        *)
(* choice (LoopFree, Runs).                                                *)
(***************************************************************************)
EXTENDS Integers, Sequences, FiniteSets, TLC

(***************************************************************************)
(* Bounds of the model.                                                    *)
(***************************************************************************)
MaxIds == 2
MaxLinks == 2
MaxPkgs == 1
MaxUuid == 2
MaxSecs == 1
MaxDays == 1
MaxReconIds == 1

(***************************************************************************)
(* Program constants.                                                      *)
(***************************************************************************)
NzoTitleLen == 20
DaySeconds == 86400
StaleSeconds == 86400
FullPercent == 100

Ids == 1..MaxIds
Uuids == 1..MaxUuid

(***************************************************************************)
(* Optional values.  None for a string-valued field, for a text (sequence) *)
(* valued field, and for a timestamp.                                      *)
(***************************************************************************)
None == "<None>"
NoText == <<"<None>">>
NoTime == -1

Truthy(s) == s # None /\ s # ""
TruthyText(t) == t # NoText /\ t # <<>>

(***************************************************************************)
(* Text helpers.                                                           *)
(***************************************************************************)
RECURSIVE Concat(_)
Concat(ss) == IF ss = <<>> THEN <<>> ELSE Head(ss) \o Concat(Tail(ss))

Take(t, n) == SubSeq(t, 1, IF Len(t) < n THEN Len(t) ELSE n)

LowerChar(c) ==
    CASE c = "E" -> "e" [] c = "X" -> "x" [] c = "T" -> "t" [] c = "R" -> "r"
      [] c = "A" -> "a" [] c = "C" -> "c" [] c = "Q" -> "q" [] c = "U" -> "u"
      [] c = "W" -> "w" [] c = "I" -> "i" [] c = "P" -> "p" [] c = "D" -> "d"
      [] c = "S" -> "s" [] c = "F" -> "f" [] c = "N" -> "n" [] c = "G" -> "g"
      [] c = "O" -> "o" [] c = "L" -> "l" [] c = "H" -> "h"
      [] OTHER -> c

Lower(t) == [i \in 1..Len(t) |-> LowerChar(t[i])]

\* pat in t  (Python's substring test)
Contains(t, pat) ==
    \E i \in 1..(Len(t) - Len(pat) + 1) : SubSeq(t, i, i + Len(pat) - 1) = pat

(***************************************************************************)
(* jdownloader.py: JD_CHAR_REPLACEMENTS and normalize_jd_name.  The        *)
(* replacements are applied one after the other, in the dict's order; no   *)
(* replacement produces a character that a later one replaces.             *)
(***************************************************************************)
JD_CHAR_REPLACEMENTS ==
    << <<":", <<";">> >>, <<"/", <<"FRACTION_SLASH">> >>, <<"\\", <<>> >>,
       <<"*", <<>> >>, <<"?", <<>> >>, <<"\"", <<"'">> >>,
       <<"<", <<"(">> >>, <<">", <<")">> >>, <<"|", <<"-">> >> >>

ReplaceChar(t, char, replacement) ==
    Concat([i \in 1..Len(t) |-> IF t[i] = char THEN replacement ELSE <<t[i]>>])

RECURSIVE ApplyReplacements(_, _)
ApplyReplacements(name, reps) ==
    IF reps = <<>> THEN name
    ELSE ApplyReplacements(ReplaceChar(name, Head(reps)[1], Head(reps)[2]), Tail(reps))

normalize_jd_name(name) == ApplyReplacements(name, JD_CHAR_REPLACEMENTS)

(***************************************************************************)
(* What a client can submit.  A payload reference decodes (sabnzbd.py      *)
(* 254-260) to a link id, the resolved URL and the clean title; two links  *)
(* (mirrors) may carry the same clean title.                               *)
(***************************************************************************)
Title1 == <<"A", ":", " ", "1">>
Title2 == <<"B">>
TitleOf(link) == IF link = 2 THEN Title2 ELSE Title1

Payloads == {[link_id |-> l, url |-> <<"u", ToString(l)>>, clean_title |-> TitleOf(l)] : l \in 1..MaxLinks}
Categories == {"sonarr"}

Upper(cat) == CASE cat = "sonarr" -> "SONARR" [] cat = "radarr" -> "RADARR" [] OTHER -> cat

\* sabnzbd.py 285-291: the per-download folder and the package name
OutputFolder(cat, title) ==
    IF cat # "" THEN <<"/output", "/", cat, "/">> \o title ELSE <<"/output", "/">> \o title
PackageName(cat, title) ==
    (IF cat # "" THEN <<"[", Upper(cat), "]", " ">> ELSE <<>>) \o title

(***************************************************************************)
(* models/download.py: DownloadStatus and Download.                        *)
(***************************************************************************)
QUEUED == "queued"
DOWNLOADING == "downloading"
PAUSED == "paused"
COMPLETED == "completed"
FAILED == "failed"
EXTRACTING == "extracting"
DownloadStatus == {QUEUED, DOWNLOADING, PAUSED, COMPLETED, FAILED, EXTRACTING}

\* downloads.py 71: the queue id, from the title's first 20 characters with
\* blanks replaced and the wall clock's time of day (%H%M%S)
TimeOfDay(t) == t % DaySeconds
NzoId(title, t) ==
    <<"SABnzbd_nzo_">> \o ReplaceChar(Take(title, NzoTitleLen), " ", <<"_">>)
        \o <<"_", ToString(TimeOfDay(t))>>

Download(id, title, category, links, source_url, nzo_id, t) ==
    [id |-> id, nzo_id |-> nzo_id, title |-> title, category |-> category,
     source_url |-> source_url, download_links |-> links,
     jd_uuid |-> None, jd_package_name |-> NoText,
     status |-> QUEUED, progress |-> 0, size_total |-> 0, size_downloaded |-> 0,
     speed |-> 0, eta |-> 0, output_path |-> NoText,
     created_at |-> t, completed_at |-> NoTime, error_message |-> None]

(***************************************************************************)
(* The agent (JDownloader), seen through jdownloader.py.  A package of its *)
(* download list has a uuid, a name and the fields query_packages returns; *)
(* the model groups those fields in phases a package can be reported in.   *)
(***************************************************************************)
SaveX == <<"/x">>
Phases == {"waiting", "queued", "running", "extracting", "paused", "finished", "finished_nosave"}

PhaseText(ph) ==
    CASE ph = "waiting" -> <<"W", "a", "i", "t">>
      [] ph = "queued" -> <<"Q", "u", "e", "u", "e", "d">>
      [] ph = "running" -> <<"D", "o", "w", "n">>
      [] ph = "extracting" -> <<"E", "x", "t", "r", "a", "c", "t">>
      [] ph = "paused" -> <<"P", "a", "u", "s", "e", "d">>
      [] ph = "running_extracting" -> <<"E", "x", "t", "r", "a", "c", "t">>
      [] ph = "extracting_waiting" -> <<"W", "a", "i", "t", " ", "e", "x", "t", "r", "a", "c", "t">>
      [] OTHER -> <<"F", "i", "n">>

\* the dict query_packages returns for a package (jdownloader.py 178-193)
Pkg(uuid, name, ph) ==
    [uuid |-> uuid, name |-> name, status |-> PhaseText(ph),
     bytesLoaded |-> (CASE ph \in {"waiting", "queued", "finished_nosave"} -> 0
                        [] ph \in {"running", "paused"} -> 1 [] OTHER -> 2),
     bytesTotal |-> (IF ph \in {"waiting", "queued", "finished_nosave"} THEN 0 ELSE 2),
     speed |-> (IF ph = "running" THEN 1 ELSE 0),
     eta |-> (IF ph = "running" THEN 5 ELSE -1),
     finished |-> (ph \in {"finished", "finished_nosave", "finished_running"}),
     running |-> (ph \in {"running", "running_extracting", "finished_running"}),
     saveTo |-> (IF ph = "finished_nosave" THEN <<>> ELSE SaveX)]

\* names a package of the agent can carry: the submitted names as the agent
\* rewrites them, and one it did not rewrite
PkgNames ==
    {normalize_jd_name(PackageName(c, TitleOf(l))) : c \in Categories, l \in 1..MaxLinks}
        \cup {PackageName(c, Title1) : c \in Categories}

NoStatus == [found |-> FALSE]

\* jdownloader.py 226-244
package_to_status(pkg) ==
    [found |-> TRUE, uuid |-> ToString(pkg.uuid), name |-> pkg.name, status |-> pkg.status,
     bytes_loaded |-> pkg.bytesLoaded, bytes_total |-> pkg.bytesTotal,
     speed |-> pkg.speed, eta |-> pkg.eta, finished |-> pkg.finished,
     running |-> pkg.running, save_to |-> pkg.saveTo]

\* jdownloader.py 201-224: the first package, in the agent's order, whose
\* uuid is the one looked for or whose name is the normalized name looked for
PkgMatches(pkg, uuid, name) ==
    \/ Truthy(uuid) /\ ToString(pkg.uuid) = uuid
    \/ TruthyText(name) /\ pkg.name = normalize_jd_name(name)

get_package_status(packages, uuid, name) ==
    LET hits == {i \in 1..Len(packages) : PkgMatches(packages[i], uuid, name)}
    IN  IF hits = {} THEN NoStatus
        ELSE package_to_status(packages[CHOOSE i \in hits : \A j \in hits : i <= j])

(***************************************************************************)
(* The state.                                                              *)
(***************************************************************************)
VARIABLES
    heap,       \* the live Download objects, by internal id
    downloads,  \* the keys of DownloadManager._downloads (dict order = creation order = ascending id)
    file,       \* the data file downloads.json
    nextId,     \* the next fresh internal id (uuid4 never repeats)
    accept,     \* per download, where the accept handler that created it stands
    pass,       \* per reconciliation pass, where update_all_progress stands
    now,        \* the wall clock, in seconds
    proc,       \* "up", or "down" after a crash
    last,       \* history: what the last step did
    listing,    \* the get_title_links call of the darkiworld client under way
    verify,     \* the get_title_links_verified call under way
    session,    \* the darkiworld client's session cache and the calls that use it
    feed        \* the request the indexer facade is answering

vars == <<heap, downloads, file, nextId, accept, pass, now, proc, last, listing, verify, session, feed>>

\* the download manager's part of the state, and the rest
manager_vars == <<heap, downloads, file, nextId, accept, pass, now, proc, last>>
client_vars == <<listing, verify, session, feed>>

Passes == {"queue", "background"}

\* Active, but a download that is being extracted is not counted
Active_NoExtracting(status) == status \in {QUEUED, DOWNLOADING, PAUSED}

Active(status) == status \in {QUEUED, DOWNLOADING, PAUSED, EXTRACTING}
Terminal(status) == status \in {COMPLETED, FAILED}

RECURSIVE Ascending(_)
Ascending(S) ==
    IF S = {} THEN <<>>
    ELSE LET m == CHOOSE x \in S : \A y \in S : x <= y IN <<m>> \o Ascending(S \ {m})

Range(f) == {f[i] : i \in DOMAIN f}
Restrict(f, S) == [x \in (DOMAIN f) \cap S |-> f[x]]

(***************************************************************************)
(* downloads.py 37-45 and 24-35: the data file holds the JSON dump of the  *)
(* whole dict; loading rebuilds each Download from its item.               *)
(***************************************************************************)
\* StrOfJson, but a null is read as the text json.dump's default=str would
\* have written for None
StrOfJson_Text(j) == IF j = <<"null">> THEN "None" ELSE j[2]

JsonStr(s) == IF s = None THEN <<"null">> ELSE <<"str", s>>
JsonText(t) == IF t = NoText THEN <<"null">> ELSE <<"str", t>>
JsonTime(t) == IF t = NoTime THEN <<"null">> ELSE <<"iso", t>>
StrOfJson(j) == IF j = <<"null">> THEN None ELSE j[2]
TextOfJson(j) == IF j = <<"null">> THEN NoText ELSE j[2]
TimeOfJson(j) == IF j = <<"null">> THEN NoTime ELSE j[2]

model_dump(dl) ==
    [dl EXCEPT !.jd_uuid = JsonStr(@), !.jd_package_name = JsonText(@),
               !.output_path = JsonText(@), !.error_message = JsonStr(@),
               !.created_at = JsonTime(@), !.completed_at = JsonTime(@)]

\* LoadItem, but the rebuilt download gets a queue id of its own
LoadItem_NewNzoId(item) ==
    [item EXCEPT !.nzo_id = <<"SABnzbd_nzo_", "reloaded">>,
                 !.jd_uuid = StrOfJson(@), !.jd_package_name = TextOfJson(@),
                 !.output_path = TextOfJson(@), !.error_message = StrOfJson(@),
                 !.created_at = TimeOfJson(@), !.completed_at = TimeOfJson(@)]

LoadItem(item) ==
    [item EXCEPT !.jd_uuid = StrOfJson(@), !.jd_package_name = TextOfJson(@),
                 !.output_path = TextOfJson(@), !.error_message = StrOfJson(@),
                 !.created_at = TimeOfJson(@), !.completed_at = TimeOfJson(@)]

\* the file once _save_downloads has returned
save_downloads(h, dls) == [state |-> "complete", data |-> [d \in dls |-> model_dump(h[d])]]

\* the dict _load_downloads builds: nothing when the file is absent or is not JSON
load_downloads(f) ==
    IF f.state = "complete" THEN [d \in DOMAIN f.data |-> LoadItem(f.data[d])] ELSE <<>>

(***************************************************************************)
(* Objects no task and no dict entry refers to are garbage.                *)
(***************************************************************************)
Held(acc, ps) ==
    {d \in Ids : acc[d] = "submit"} \cup UNION {Range(ps[p].todo) : p \in Passes}

Collect(h, dls, acc, ps) == Restrict(h, dls \cup Held(acc, ps))
Forget(h, dls, acc, ps) ==
    [d \in Ids |-> IF d \in dls \cup Held(acc, ps) THEN acc[d] ELSE "none"]

Idle == [pc |-> "idle", todo |-> <<>>, key |-> None, rep |-> NoStatus]
Other == [op |-> "other"]

(***************************************************************************)
(* The event loop.  Handlers and the background loop are coroutines of one *)
(* thread: a task keeps the loop until it awaits something that suspends.  *)
(* The adapter's coroutines (jdownloader.py 51-263) await only connect(),  *)
(* which awaits nothing, and call the binding without await: an await on   *)
(* the adapter returns without the task having given up the loop.          *)
(***************************************************************************)
\* an adapter whose calls suspend the calling task
AdapterYields_Always == TRUE

AdapterYields == FALSE

AcceptTask(d) == ToString(d)
InFlight(acc, ps) ==
    {AcceptTask(d) : d \in {e \in Ids : acc[e] = "submit"}} \cup {p \in Passes : ps[p].pc # "idle"}

\* a new task gets the loop; a task goes on after its await
LoopFree == proc = "up" /\ (AdapterYields \/ InFlight(accept, pass) = {})
Runs(task) == proc = "up" /\ (AdapterYields \/ InFlight(accept, pass) \subseteq {task})

\* the state of the download manager after construction without a data file
Fresh ==
    /\ heap = <<>>
    /\ downloads = {}
    /\ file = [state |-> "absent", data |-> <<>>]
    /\ nextId = 1
    /\ accept = [d \in Ids |-> "none"]
    /\ pass = [p \in Passes |-> Idle]
    /\ now = 0
    /\ proc = "up"
    /\ last = Other

\* no call of the darkiworld client is under way
NoCall == [pc |-> "idle"]

Init ==
    /\ Fresh
    /\ listing = NoCall
    /\ verify = NoCall
    /\ session = NoCall
    /\ feed = NoCall

(***************************************************************************)
(* sabnzbd.py 216-315 (addurl; addfile, 133-213, is the same code): the    *)
(* handler creates the download, awaits the submission to the agent and    *)
(* stores what the agent answered.                                         *)
(***************************************************************************)
create_download(d, title, category, links, source_url, t) ==
    Download(d, title, category, links, source_url, NzoId(title, t), t)

AddurlCreate(payload, cat) ==
    /\ LoopFree
    /\ nextId <= MaxIds
    /\ LET d == nextId
           dl == create_download(d, payload.clean_title, cat, <<payload.url>>,
                                 <<"darkiworld://link/", ToString(payload.link_id)>>, now)
           h == heap @@ (d :> dl)
           dls == downloads \cup {d}
       IN  /\ heap' = h
           /\ downloads' = dls
           /\ file' = save_downloads(h, dls)
           /\ accept' = [accept EXCEPT ![d] = "submit"]
           /\ last' = [op |-> "create", d |-> d]
    /\ nextId' = nextId + 1
    /\ UNCHANGED <<pass, now, proc>>

\* the answers of add_links (jdownloader.py 103-170): None, or the id the
\* link grabber gave the crawl job, which need not be a package's uuid
AddLinksResults == {None} \cup {ToString(u) : u \in 0..MaxUuid}

AddurlStore(dl, package_id) ==
    IF Truthy(package_id)
    THEN [dl EXCEPT !.jd_uuid = package_id,
                    !.jd_package_name = PackageName(dl.category, dl.title),
                    !.output_path = OutputFolder(dl.category, dl.title)]
    ELSE dl

AddurlSubmitted(d, package_id) ==
    /\ Runs(AcceptTask(d))
    /\ accept[d] = "submit"
    /\ LET h == [heap EXCEPT ![d] = AddurlStore(@, package_id)]
           acc == [accept EXCEPT ![d] = IF Truthy(package_id) THEN "ok" ELSE "noid"]
       IN  /\ heap' = Collect(h, downloads, acc, pass)
           /\ accept' = Forget(h, downloads, acc, pass)
           /\ file' = IF Truthy(package_id) THEN save_downloads(h, downloads) ELSE file
           /\ last' = [op |-> "submitted", d |-> d]
    /\ UNCHANGED <<downloads, nextId, pass, now, proc>>

(***************************************************************************)
(* downloads.py 262-342: reconciliation.  update_all_progress snapshots    *)
(* the active downloads and awaits update_progress for each; a pass is at  *)
(* "wait_uuid", "wait_name" or "wait_files" while the agent's answer to    *)
(* the lookup by identifier, by name, or to get_package_files is awaited.  *)
(***************************************************************************)
get_active_downloads(h, dls) ==
    SelectSeq(Ascending(dls), LAMBDA d : Active(h[d].status))

\* downloads.py 208-216, with no category
get_completed_downloads(h, dls) ==
    SelectSeq(Ascending(dls), LAMBDA d : Terminal(h[d].status))

\* update_progress returns at once, with no lookup, for a download that has
\* neither an identifier nor a package name (276, 281, 288)
RECURSIVE Enter(_, _)
Enter(todo, h) ==
    IF todo = <<>> THEN Idle
    ELSE LET dl == h[Head(todo)]
         IN  IF Truthy(dl.jd_uuid)
             THEN [pc |-> "wait_uuid", todo |-> todo, key |-> dl.jd_uuid, rep |-> NoStatus]
             ELSE IF TruthyText(dl.jd_package_name)
             THEN [pc |-> "wait_name", todo |-> todo, key |-> None, rep |-> NoStatus]
             ELSE Enter(Tail(todo), h)

UpdateAllProgress(p) ==
    /\ LoopFree
    /\ pass[p].pc = "idle"
    /\ pass' = [pass EXCEPT ![p] = Enter(get_active_downloads(heap, downloads), heap)]
    /\ last' = [op |-> "pass"]
    /\ UNCHANGED <<heap, downloads, file, nextId, accept, now, proc>>

\* StatusFor, but the agent's text is read before its running flag
StatusFor_TextFirst(old, st) ==
    IF st.finished THEN COMPLETED
    ELSE IF Contains(Lower(st.status), <<"e", "x", "t", "r", "a", "c", "t">>) THEN EXTRACTING
    ELSE IF \/ Contains(Lower(st.status), <<"q", "u", "e", "u", "e">>)
            \/ Contains(Lower(st.status), <<"w", "a", "i", "t">>) THEN QUEUED
    ELSE IF st.running THEN DOWNLOADING
    ELSE old

\* StatusFor, but the agent's "paused" text is mapped too
StatusFor_Paused(old, st) ==
    IF st.finished THEN COMPLETED
    ELSE IF st.running THEN DOWNLOADING
    ELSE IF Contains(Lower(st.status), <<"e", "x", "t", "r", "a", "c", "t">>) THEN EXTRACTING
    ELSE IF \/ Contains(Lower(st.status), <<"q", "u", "e", "u", "e">>)
            \/ Contains(Lower(st.status), <<"w", "a", "i", "t">>) THEN QUEUED
    ELSE IF Contains(Lower(st.status), <<"p", "a", "u", "s", "e">>) THEN PAUSED
    ELSE old

\* downloads.py 303-331: the status the agent's report maps to
StatusFor(old, st) ==
    IF st.finished THEN COMPLETED
    ELSE IF st.running THEN DOWNLOADING
    ELSE IF Contains(Lower(st.status), <<"e", "x", "t", "r", "a", "c", "t">>) THEN EXTRACTING
    ELSE IF \/ Contains(Lower(st.status), <<"q", "u", "e", "u", "e">>)
            \/ Contains(Lower(st.status), <<"w", "a", "i", "t">>) THEN QUEUED
    ELSE old

\* ApplyStatus, but the progress of a finished package is computed from its
\* sizes like any other
ApplyStatus_Computed(dl, st, t) ==
    [dl EXCEPT !.size_total = st.bytes_total,
               !.size_downloaded = st.bytes_loaded,
               !.speed = st.speed,
               !.eta = IF st.eta > 0 THEN st.eta ELSE 0,
               !.output_path = IF TruthyText(st.save_to) THEN st.save_to ELSE @,
               !.progress = IF st.bytes_total > 0
                            THEN (st.bytes_loaded * FullPercent) \div st.bytes_total
                            ELSE @,
               !.completed_at = IF st.finished THEN t ELSE @,
               !.status = StatusFor(@, st)]

\* downloads.py 288-307: what update_progress writes from a report.  With
\* the sizes of Pkg the float quotient of 301 is exact.
ApplyStatus(dl, st, t) ==
    [dl EXCEPT !.size_total = st.bytes_total,
               !.size_downloaded = st.bytes_loaded,
               !.speed = st.speed,
               !.eta = IF st.eta > 0 THEN st.eta ELSE 0,
               !.output_path = IF TruthyText(st.save_to) THEN st.save_to ELSE @,
               !.progress = IF st.finished THEN FullPercent
                            ELSE IF st.bytes_total > 0
                            THEN (st.bytes_loaded * FullPercent) \div st.bytes_total
                            ELSE @,
               !.completed_at = IF st.finished THEN t ELSE @,
               !.status = StatusFor(@, st)]

\* ReconcileSave, but what is written is the set as it was before the update
ReconcileSave_Stale(h, dls, d) == save_downloads(heap, dls)

\* NameHit, but the stored identifier is kept
NameHit_Keeps(dl, st) == dl

\* downloads.py 333: update_progress persists the dict, not the download it holds
ReconcileSave(h, dls, d) == save_downloads(h, dls)

\* downloads.py 284-285: a hit by name stores the identifier the agent reports
NameHit(dl, st) == [dl EXCEPT !.jd_uuid = st.uuid]

\* downloads.py 311: a finished package's files are asked for
NeedsFiles(dl, st) == st.finished /\ Truthy(dl.jd_uuid) /\ TruthyText(st.save_to)

\* the pass leaves its current download and goes on to the next one
Leave(p, h) == [pass EXCEPT ![p] = Enter(Tail(pass[p].todo), h)]

\* the rest of update_progress once a lookup has resolved the package:
\* lines 288-307, then either the await of 312 or the save of 333.  The
\* history keeps the report, the status before, and what a lookup by the
\* identifier now stored returns from the list this lookup saw.
Resolved(p, d, dl, st, by, packages) ==
    LET new == ApplyStatus(dl, st, now)
        h == [heap EXCEPT ![d] = new]
        ps == IF NeedsFiles(new, st)
              THEN [pass EXCEPT ![p] = [@ EXCEPT !.pc = "wait_files", !.rep = st]]
              ELSE Leave(p, h)
    IN  /\ pass' = ps
        /\ heap' = Collect(h, downloads, accept, ps)
        /\ accept' = Forget(h, downloads, accept, ps)
        /\ file' = IF NeedsFiles(new, st) THEN file ELSE ReconcileSave(h, downloads, d)
        /\ last' = [op |-> "resolved", d |-> d, by |-> by, rep |-> st,
                    from |-> heap[d].status,
                    again |-> get_package_status(packages, new.jd_uuid, NoText)]

\* Unresolved, but a package the agent no longer lists fails its download
Unresolved_Fails(p, d) ==
    LET h == [heap EXCEPT ![d].status = FAILED]
        ps == Leave(p, h)
    IN  /\ pass' = ps
        /\ heap' = Collect(h, downloads, accept, ps)
        /\ accept' = Forget(h, downloads, accept, ps)
        /\ file' = ReconcileSave(h, downloads, d)
        /\ last' = [op |-> "unresolved", d |-> d]

\* the package was found neither way: update_progress returns (335)
Unresolved(p, d) ==
    LET ps == Leave(p, heap)
    IN  /\ pass' = ps
        /\ heap' = Collect(heap, downloads, accept, ps)
        /\ accept' = Forget(heap, downloads, accept, ps)
        /\ file' = file
        /\ last' = [op |-> "unresolved", d |-> d]

\* what get_packages can return (jdownloader.py 172-199): the agent's download
\* list at the time of the call, packages with distinct uuids in the agent's
\* order, or [] when the agent cannot be reached.  The agent is not under the
\* program's control: every call may see another list.
RECURSIVE PkgLists(_, _, _, _)
PkgLists(n, uuids, names, phases) ==
    IF n = 0 THEN {<<>>}
    ELSE LET shorter == PkgLists(n - 1, uuids, names, phases)
         IN  shorter \cup
             {Append(l, Pkg(u, name, ph)) :
                 l \in {x \in shorter : Len(x) = n - 1},
                 u \in uuids, name \in names, ph \in phases}

DistinctUuids(l) == \A i, j \in 1..Len(l) : i # j => l[i].uuid # l[j].uuid

AgentLists == {l \in PkgLists(MaxPkgs, Uuids, PkgNames, Phases) : DistinctUuids(l)}

\* downloads.py 276-277, and 281 when the identifier misses
LookupByUuid(p, packages) ==
    /\ Runs(p)
    /\ pass[p].pc = "wait_uuid"
    /\ LET d == Head(pass[p].todo)
           st == get_package_status(packages, pass[p].key, NoText)
       IN  IF st.found THEN Resolved(p, d, heap[d], st, "uuid", packages)
           ELSE IF TruthyText(heap[d].jd_package_name)
           THEN /\ pass' = [pass EXCEPT ![p] = [@ EXCEPT !.pc = "wait_name"]]
                /\ last' = [op |-> "miss", d |-> d]
                /\ UNCHANGED <<heap, accept, file>>
           ELSE Unresolved(p, d)
    /\ UNCHANGED <<downloads, nextId, now, proc>>

\* downloads.py 282-286
LookupByName(p, packages) ==
    /\ Runs(p)
    /\ pass[p].pc = "wait_name"
    /\ LET d == Head(pass[p].todo)
           st == get_package_status(packages, None, heap[d].jd_package_name)
       IN  IF st.found
           THEN Resolved(p, d, NameHit(heap[d], st), st, "name", packages)
           ELSE Unresolved(p, d)
    /\ UNCHANGED <<downloads, nextId, now, proc>>

\* downloads.py 312-333: the files' answer; 319 writes the save location again
PackageFiles(p, named) ==
    /\ Runs(p)
    /\ pass[p].pc = "wait_files"
    /\ LET d == Head(pass[p].todo)
           h == [heap EXCEPT ![d] = IF named THEN [@ EXCEPT !.output_path = pass[p].rep.save_to] ELSE @]
           ps == Leave(p, h)
       IN  /\ pass' = ps
           /\ heap' = Collect(h, downloads, accept, ps)
           /\ accept' = Forget(h, downloads, accept, ps)
           /\ file' = ReconcileSave(h, downloads, d)
           /\ last' = [op |-> "files", d |-> d]
    /\ UNCHANGED <<downloads, nextId, now, proc>>

(***************************************************************************)
(* downloads.py 80-125 and 344-379: lookups by key and the mutations the   *)
(* facade's delete commands (sabnzbd.py 59-75) and the manager's own       *)
(* operations make.  A key is an internal id or a queue id.                *)
(***************************************************************************)
Keys(h, dls) ==
    {[kind |-> "id", v |-> <<ToString(d)>>] : d \in Ids}
        \cup {[kind |-> "nzo", v |-> h[d].nzo_id] : d \in dls}

\* get_download: the entry with that internal id, else the first entry, in
\* dict order, with that queue id; 0 when there is none
get_download(key, h, dls) ==
    LET byId == {d \in dls : key.kind = "id" /\ key.v = <<ToString(d)>>}
        byNzo == {d \in dls : key.kind = "nzo" /\ key.v = h[d].nzo_id}
    IN  IF byId # {} THEN CHOOSE d \in byId : TRUE
        ELSE IF byNzo # {} THEN CHOOSE d \in byNzo : \A e \in byNzo : d <= e
        ELSE 0

\* a mutation of the dict followed by _save_downloads
Persist(h, dls, what) ==
    /\ heap' = Collect(h, dls, accept, pass)
    /\ accept' = Forget(h, dls, accept, pass)
    /\ downloads' = dls
    /\ file' = save_downloads(h, dls)
    /\ last' = what

\* DeleteDownload, but every download that carries the queue id is removed
DeleteDownload_EveryMatch(key) ==
    /\ LoopFree
    /\ LET d == get_download(key, heap, downloads)
           same == {e \in downloads : heap[e].nzo_id = key.v}
       IN  IF d # 0
           THEN Persist(heap, downloads \ ({d} \cup same), [op |-> "delete", d |-> d, key |-> key])
           ELSE /\ last' = [op |-> "delete", d |-> 0, key |-> key]
                /\ UNCHANGED <<heap, accept, downloads, file>>
    /\ UNCHANGED <<nextId, pass, now, proc>>

\* downloads.py 92-118 (sabnzbd.py 70-75): the history keeps the key asked for
DeleteDownload(key) ==
    /\ LoopFree
    /\ LET d == get_download(key, heap, downloads)
       IN  IF d # 0
           THEN Persist(heap, downloads \ {d}, [op |-> "delete", d |-> d, key |-> key])
           ELSE /\ last' = [op |-> "delete", d |-> 0, key |-> key]
                /\ UNCHANGED <<heap, accept, downloads, file>>
    /\ UNCHANGED <<nextId, pass, now, proc>>

ClearAll ==
    /\ LoopFree
    /\ Persist(heap, {}, [op |-> "clear"])
    /\ UNCHANGED <<nextId, pass, now, proc>>

RemoveDownload(key) ==
    /\ LoopFree
    /\ get_download(key, heap, downloads) # 0
    /\ Persist(heap, downloads \ {get_download(key, heap, downloads)},
               [op |-> "remove", d |-> get_download(key, heap, downloads)])
    /\ UNCHANGED <<nextId, pass, now, proc>>

MarkCompleted(key) ==
    /\ LoopFree
    /\ LET d == get_download(key, heap, downloads)
       IN  /\ d # 0
           /\ Persist([heap EXCEPT ![d] = [@ EXCEPT !.status = COMPLETED, !.completed_at = now,
                                                    !.progress = FullPercent]],
                      downloads, [op |-> "mark", d |-> d])
    /\ UNCHANGED <<nextId, pass, now, proc>>

MarkFailed(key, error) ==
    /\ LoopFree
    /\ LET d == get_download(key, heap, downloads)
       IN  /\ d # 0
           /\ Persist([heap EXCEPT ![d] = [@ EXCEPT !.status = FAILED, !.error_message = error]],
                      downloads, [op |-> "mark", d |-> d])
    /\ UNCHANGED <<nextId, pass, now, proc>>

\* downloads.py 218-260: the manager's own submission
start_download(dl, uuid) ==
    IF dl.download_links = <<>>
    THEN [dl EXCEPT !.status = FAILED, !.error_message = "Aucun lien de telechargement"]
    ELSE IF Truthy(uuid)
    THEN [dl EXCEPT !.jd_uuid = uuid, !.status = DOWNLOADING,
                    !.output_path = OutputFolder(dl.category, dl.title)]
    ELSE [dl EXCEPT !.status = FAILED, !.error_message = "Echec ajout a JDownloader"]

StartDownload(d, uuid) ==
    /\ LoopFree
    /\ d \in downloads
    /\ Persist([heap EXCEPT ![d] = start_download(@, uuid)], downloads, [op |-> "start", d |-> d])
    /\ UNCHANGED <<nextId, pass, now, proc>>

(***************************************************************************)
(* downloads.py 127-188: the stale-entry cleanup the history command       *)
(* schedules (sabnzbd.py 117).  It has no await: it runs in one step.  The *)
(* file system is read through os.path.exists, isdir and listdir.          *)
(***************************************************************************)
Hidden == <<".", "h">>
Visible == <<"f">>
FsEntries ==
    {[kind |-> "missing", names |-> {}], [kind |-> "file", names |-> {}]}
        \cup {[kind |-> "dir", names |-> S] : S \in SUBSET {Hidden, Visible}}

\* should_remove, but a completed download goes only when its path is missing
should_remove_MissingOnly(dl, entry, t) ==
    IF dl.status = COMPLETED
    THEN TruthyText(dl.output_path) /\ entry.kind = "missing"
    ELSE IF dl.status = FAILED
    THEN dl.created_at # NoTime /\ t - dl.created_at > StaleSeconds
    ELSE FALSE

\* should_remove, but a failed download goes once it is as old as the threshold
should_remove_AtThreshold(dl, entry, t) ==
    IF dl.status = COMPLETED
    THEN /\ TruthyText(dl.output_path)
         /\ \/ entry.kind = "missing"
            \/ /\ entry.kind = "dir"
               /\ {f \in entry.names : Head(f) # "."} = {}
    ELSE IF dl.status = FAILED
    THEN dl.created_at # NoTime /\ t - dl.created_at >= StaleSeconds
    ELSE FALSE

\* should_remove, but the path test is made whatever the status
should_remove_AnyStatus(dl, entry, t) ==
    \/ /\ TruthyText(dl.output_path)
       /\ \/ entry.kind = "missing"
          \/ /\ entry.kind = "dir"
             /\ {f \in entry.names : Head(f) # "."} = {}
    \/ dl.status = FAILED /\ dl.created_at # NoTime /\ t - dl.created_at > StaleSeconds

should_remove(dl, entry, t) ==
    IF dl.status = COMPLETED
    THEN /\ TruthyText(dl.output_path)
         /\ \/ entry.kind = "missing"
            \/ /\ entry.kind = "dir"
               /\ {f \in entry.names : Head(f) # "."} = {}
    ELSE IF dl.status = FAILED
    THEN dl.created_at # NoTime /\ t - dl.created_at > StaleSeconds
    ELSE FALSE

\* the paths the pass looks at
CleanupPaths(h, dls) ==
    {h[d].output_path : d \in {e \in dls : h[e].status = COMPLETED /\ TruthyText(h[e].output_path)}}

CleanupStaleDownloads(fs) ==
    /\ LoopFree
    /\ LET to_remove == {d \in downloads :
                            should_remove(heap[d],
                                          IF heap[d].output_path \in DOMAIN fs
                                          THEN fs[heap[d].output_path]
                                          ELSE [kind |-> "missing", names |-> {}],
                                          now)}
           what == [op |-> "cleanup", fs |-> fs, removed |-> to_remove, before |-> downloads]
       IN  IF to_remove # {}
           THEN Persist(heap, downloads \ to_remove, what)
           ELSE /\ last' = what
                /\ UNCHANGED <<heap, accept, downloads, file>>
    /\ UNCHANGED <<nextId, pass, now, proc>>

(***************************************************************************)
(* The environment: the clock, and the process being stopped and started   *)
(* again.                                                                  *)
(***************************************************************************)
Tick ==
    /\ \/ TimeOfDay(now) < MaxSecs /\ now' = now + 1
       \/ now \div DaySeconds < MaxDays /\ now' = now + DaySeconds
    /\ last' = Other
    /\ UNCHANGED <<heap, downloads, file, nextId, accept, pass, proc>>

\* the process stops (its tasks with it) and starts: DownloadManager.__init__
\* loads the data file (downloads.py 18-35)
Restart ==
    /\ heap' = load_downloads(file)
    /\ downloads' = DOMAIN load_downloads(file)
    /\ accept' = [d \in Ids |-> IF d \in DOMAIN load_downloads(file) /\ accept[d] # "submit"
                                THEN accept[d] ELSE "none"]
    /\ pass' = [p \in Passes |-> Idle]
    /\ proc' = "up"
    /\ last' = [op |-> "restart", quiet |-> proc = "up" /\ InFlight(accept, pass) = {}]
    /\ UNCHANGED <<file, nextId, now>>

\* the process dies inside _save_downloads, after open(..., "w") has
\* truncated the file and before json.dump has written it (41-43); a
\* command that persists (delete all, 120-125) can arrive at any time
CrashInSave ==
    /\ proc = "up"
    /\ file' = [state |-> "truncated", data |-> <<>>]
    /\ heap' = <<>>
    /\ downloads' = {}
    /\ accept' = [d \in Ids |-> "none"]
    /\ pass' = [p \in Passes |-> Idle]
    /\ proc' = "down"
    /\ last' = [op |-> "crash"]
    /\ UNCHANGED <<nextId, now>>

(***************************************************************************)
(* main.py 66-95: shutdown.  The lifespan cancels the background task and  *)
(* awaits it; the CancelledError is raised in the task at the await where  *)
(* it is suspended.                                                        *)
(***************************************************************************)
\* CancelPoints, but the task can be interrupted while it writes the file
CancelPoints_Preemptive == {"idle", "wait_uuid", "wait_name", "wait_files", "save"}

\* where the background task can be suspended: asyncio.sleep (main.py 90),
\* and the adapter's awaits of update_all_progress (91) if they suspend
CancelPoints ==
    {"idle"} \cup (IF AdapterYields THEN {"wait_uuid", "wait_name", "wait_files"} ELSE {})

\* main.py 72-73: update_task.cancel(), reached when no handler is running
Shutdown ==
    /\ LoopFree
    /\ proc' = "stopping"
    /\ last' = Other
    /\ UNCHANGED <<heap, downloads, file, nextId, accept, pass, now>>

\* main.py 75-78, 88-93: the task receives the CancelledError where it
\* stands and leaves its loop; a task interrupted inside _save_downloads
\* (downloads.py 41-43) would leave the file truncated
DeliverCancel ==
    /\ proc = "stopping"
    /\ \E point \in CancelPoints :
          \/ /\ point = pass["background"].pc
             /\ file' = file
          \/ /\ point = "save"
             /\ get_active_downloads(heap, downloads) # <<>>
             /\ file' = [state |-> "truncated", data |-> <<>>]
    /\ pass' = [pass EXCEPT !["background"] = Idle]
    /\ proc' = "stopped"
    /\ last' = Other
    /\ UNCHANGED <<heap, downloads, nextId, accept, now>>

(***************************************************************************)
(* The next-state relations.  A specification names the inputs it draws:   *)
(* how many downloads are accepted, the payloads, the answers of           *)
(* add_links, the passes that run and the lists the agent returns.         *)
(***************************************************************************)
Requests(max, payloads, results) ==
    \/ \E payload \in payloads, cat \in Categories :
            nextId <= max /\ AddurlCreate(payload, cat) /\ UNCHANGED client_vars
    \/ \E d \in Ids, r \in results : AddurlSubmitted(d, r) /\ UNCHANGED client_vars
    \/ \E key \in Keys(heap, downloads) : DeleteDownload(key) /\ UNCHANGED client_vars
    \/ ClearAll /\ UNCHANGED client_vars
    \/ \E fs \in [CleanupPaths(heap, downloads) -> FsEntries] : CleanupStaleDownloads(fs) /\ UNCHANGED client_vars

Reconciliation(passes, lists) ==
    \/ \E p \in passes : UpdateAllProgress(p) /\ UNCHANGED client_vars
    \/ \E p \in passes, packages \in lists : LookupByUuid(p, packages) /\ UNCHANGED client_vars
    \/ \E p \in passes, packages \in lists : LookupByName(p, packages) /\ UNCHANGED client_vars
    \/ \E p \in passes, named \in BOOLEAN : PackageFiles(p, named) /\ UNCHANGED client_vars

ManagerCalls(results) ==
    \/ \E key \in Keys(heap, downloads) : RemoveDownload(key) /\ UNCHANGED client_vars
    \/ \E key \in Keys(heap, downloads) : MarkCompleted(key) /\ UNCHANGED client_vars
    \/ \E key \in Keys(heap, downloads) : MarkFailed(key, "error") /\ UNCHANGED client_vars
    \/ \E d \in Ids, r \in results : StartDownload(d, r) /\ UNCHANGED client_vars

Environment ==
    \/ Tick /\ UNCHANGED client_vars
    \/ Restart /\ UNCHANGED client_vars

\* the facade's traffic with two downloads: add_links answers nothing or a
\* crawl-job id that is no package's uuid, and the agent lists one package
CoreResults == {None, "0"}
CorePhases == {"queued", "running", "finished"}
CoreLists == {l \in PkgLists(MaxPkgs, {u \in Uuids : u = 1}, PkgNames, CorePhases) : DistinctUuids(l)}

Next ==
    \/ Requests(MaxIds, Payloads, CoreResults)
    \/ Reconciliation(Passes, CoreLists)
    \/ Environment

Spec == Init /\ [][Next]_vars

\* the same, and the process can die while it writes the data file
NextCrash ==
    \/ Next
    \/ CrashInSave /\ UNCHANGED client_vars

SpecCrash == Init /\ [][NextCrash]_vars

\* one download reconciled against every list the agent can return
NextRecon ==
    \/ Requests(MaxReconIds, Payloads, AddLinksResults)
    \/ Reconciliation(Passes, AgentLists)
    \/ Environment

SpecRecon == Init /\ [][NextRecon]_vars

\* one download reconciled against reports whose flags and text disagree:
\* the agent sets finished, running and the text independently
\* (jdownloader.py 226-244 copies them as they come)
StatusPhases ==
    {"queued", "running", "extracting", "paused", "finished",
     "running_extracting", "extracting_waiting", "finished_running"}
StatusLists == {l \in PkgLists(MaxPkgs, {u \in Uuids : u = 1}, PkgNames, StatusPhases) : DistinctUuids(l)}

NextStatus ==
    \/ Requests(MaxReconIds, Payloads, CoreResults)
    \/ Reconciliation(Passes, StatusLists)
    \/ Environment

SpecStatus == Init /\ [][NextStatus]_vars

\* one download, and the process shuts down
NextShutdown ==
    \/ Requests(MaxReconIds, Payloads, CoreResults)
    \/ Reconciliation(Passes, CoreLists)
    \/ Tick /\ UNCHANGED client_vars
    \/ Shutdown /\ UNCHANGED client_vars
    \/ DeliverCancel /\ UNCHANGED client_vars

\* the event loop runs a task that is ready
SpecShutdown == Init /\ [][NextShutdown]_vars /\ WF_vars(DeliverCancel /\ UNCHANGED client_vars)

\* one download driven through the manager's own operations
NextManager ==
    \/ Requests(MaxReconIds, Payloads, CoreResults)
    \/ ManagerCalls(CoreResults)
    \/ Environment

SpecManager == Init /\ [][NextManager]_vars

(***************************************************************************)
(* darkiworld.py: the links of a title.  A link is what _parse_link        *)
(* (332-389) keeps of an upstream record; of its fields the ranking reads  *)
(* id, episode, quality and host.  An absent id and an absent episode are  *)
(* NoId and NoEpisode.                                                     *)
(***************************************************************************)
NoId == 0
NoEpisode == -1

Link(id, episode, quality, host) ==
    [id |-> id, episode |-> episode, quality |-> quality, host |-> host]

UpperChar(c) ==
    CASE c = "l" -> "L" [] c = "t" -> "T" [] c = "r" -> "R" [] c = "a" -> "A" [] c = "i" -> "I" [] c = "g" -> "G" [] c = "h" -> "H" [] c = "u" -> "U" [] c = "y" -> "Y" [] c = "e" -> "E" [] c = "m" -> "M" [] c = "x" -> "X" 
      [] OTHER -> c

UpperText(t) == [i \in 1..Len(t) |-> UpperChar(t[i])]

\* quality names of the site (darkiworld.py 493-506), and a link without one
QualUltraHD == <<"U", "L", "T", "R", "A", " ", "H", "D">>
QualUltraHDLight == <<"U", "l", "t", "r", "a", " ", "H", "D", "L", "i", "g", "h", "t">>
Qual4K == <<"4", "K">>
QualRemux == <<"R", "E", "M", "U", "X">>
QualBluray1080 == <<"B", "l", "u", "r", "a", "y", " ", "1", "0", "8", "0">>
Qual1080 == <<"H", "D", " ", "1", "0", "8", "0">>
Qual720 == <<"H", "D", " ", "7", "2", "0">>
QualDvd == <<"D", "V", "D">>
Qualities ==
    { QualUltraHD, QualUltraHDLight, Qual4K, QualRemux, QualBluray1080,
      Qual1080, Qual720, QualDvd, NoText }

\* the two hosts the ranking knows, and another
Host1Fichier == <<"1", "F", "i", "c", "h", "i", "e", "r">>
HostSend == <<"S", "e", "n", "d">>
HostOther == <<"U", "p", "t", "o", "b", "o", "x">>
Hosts == { Host1Fichier, HostSend, HostOther }

\* darkiworld.py 489-507
quality_score(q) ==
    LET q_upper == UpperText(IF q = NoText THEN <<>> ELSE q) IN
    IF Contains(q_upper, <<"U", "L", "T", "R", "A", " ", "H", "D">>) /\ ~Contains(q_upper, <<"L", "I", "G", "H", "T">>) THEN 0
    ELSE IF \/ Contains(q_upper, <<"U", "L", "T", "R", "A">>) \/ Contains(q_upper, <<"U", "H", "D">>)
            \/ Contains(q_upper, <<"2", "1", "6", "0">>) \/ Contains(q_upper, <<"4", "K">>) THEN 1
    ELSE IF Contains(q_upper, <<"R", "E", "M", "U", "X">>) THEN 2
    ELSE IF Contains(q_upper, <<"B", "L", "U", "R", "A", "Y">>) /\ Contains(q_upper, <<"1", "0", "8", "0">>) THEN 3
    ELSE IF Contains(q_upper, <<"1", "0", "8", "0">>) THEN 4
    ELSE IF Contains(q_upper, <<"7", "2", "0">>) THEN 5
    ELSE 6

\* darkiworld.py 514-515
host_rank(host) ==
    IF Contains(Lower(host), <<"1", "f", "i", "c", "h", "i", "e", "r">>) THEN 0
    ELSE IF Contains(Lower(host), <<"s", "e", "n", "d">>) THEN 1
    ELSE 2

\* darkiworld.py 512-516: the key of the sort, and the order of two keys
sort_key(x) == <<quality_score(x.quality), host_rank(x.host)>>
KeyLess(a, b) == a[1] < b[1] \/ (a[1] = b[1] /\ a[2] < b[2])

\* InsertByKey, but a link goes before the links whose key equals its own
RECURSIVE InsertByKey_Before(_, _)
InsertByKey_Before(done, x) ==
    IF done = <<>> THEN <<x>>
    ELSE IF ~KeyLess(sort_key(Head(done)), sort_key(x)) THEN <<x>> \o done
    ELSE <<Head(done)>> \o InsertByKey_Before(Tail(done), x)

\* sorted() is stable: a link goes after the links whose key is not greater
RECURSIVE InsertByKey(_, _)
InsertByKey(done, x) ==
    IF done = <<>> THEN <<x>>
    ELSE IF KeyLess(sort_key(x), sort_key(Head(done))) THEN <<x>> \o done
    ELSE <<Head(done)>> \o InsertByKey(Tail(done), x)

RECURSIVE ep_links_sorted(_)
ep_links_sorted(ep_links) ==
    IF ep_links = <<>> THEN <<>>
    ELSE InsertByKey(ep_links_sorted(SubSeq(ep_links, 1, Len(ep_links) - 1)),
                     ep_links[Len(ep_links)])

\* episode_key, but an absent episode stays apart from episode 0
episode_key_Raw(link) == link.episode

\* darkiworld.py 476-480: None -> 0
episode_key(link) == IF link.episode = NoEpisode THEN 0 ELSE link.episode

links_by_episode(all_links, ep) == SelectSeq(all_links, LAMBDA link : episode_key(link) = ep)

\* sorted(links_by_episode.keys())
RECURSIVE SortedKeys(_)
SortedKeys(keys) ==
    IF keys = {} THEN <<>>
    ELSE LET least == CHOOSE k \in keys : \A other \in keys : k <= other
         IN  <<least>> \o SortedKeys(keys \ {least})

episodes(all_links) == SortedKeys({episode_key(all_links[i]) : i \in 1..Len(all_links)})

\* darkiworld.py 509-518: one link per episode, the first of the sorted group
representatives(all_links) ==
    LET eps == episodes(all_links)
    IN  [k \in 1..Len(eps) |-> ep_links_sorted(links_by_episode(all_links, eps[k]))[1]]

\* darkiworld.py 520-524: then the links whose id no representative carries
diversified_links(all_links) ==
    LET reps == representatives(all_links)
        seen_ids == {reps[k].id : k \in 1..Len(reps)}
    IN  reps \o SelectSeq(all_links, LAMBDA link : link.id \notin seen_ids)

\* links_to_verify, but the whole diversified order is taken
links_to_verify_All(all_links, max_links) == diversified_links(all_links)

\* darkiworld.py 529
links_to_verify(all_links, max_links) == Take(diversified_links(all_links), max_links)

(***************************************************************************)
(* darkiworld.py 391-442, 531-551: the liveness probe of one link.  The    *)
(* upstream's answer to the POST is an input; a URL is a sequence of its   *)
(* parts.                                                                  *)
(***************************************************************************)
HttpOk == 200

UrlSendCm == <<"https://", "send.cm/", "a">>
UrlPlain == <<"https://", "1fichier.com/", "b">>

Response(raises, status_code, deleted_at, active, directDL, lien) ==
    [raises |-> raises, status_code |-> status_code, deleted_at |-> deleted_at,
     active |-> active, directDL |-> directDL, lien |-> lien]

NoResponse == Response(FALSE, 0, None, 0, NoText, NoText)

\* the request fails or times out; the upstream refuses; the record is
\* soft-deleted; inactive; without URL; alive with a direct URL; alive with
\* the host's URL only
ProbeResponses ==
    { Response(TRUE, 0, None, 0, NoText, NoText),
      Response(FALSE, 500, None, 1, UrlPlain, UrlPlain),
      Response(FALSE, HttpOk, "2024-01-01", 1, UrlPlain, UrlPlain),
      Response(FALSE, HttpOk, None, 0, UrlPlain, UrlPlain),
      Response(FALSE, HttpOk, None, 1, <<>>, NoText),
      Response(FALSE, HttpOk, None, 1, UrlSendCm, UrlPlain),
      Response(FALSE, HttpOk, None, 1, NoText, UrlPlain) }

\* Python's `a or b` on two optional texts
OrText(a, b) == IF TruthyText(a) THEN a ELSE b

\* verify_link_availability, but an inactive record is accepted
verify_link_availability_Inactive(r) ==
    /\ ~r.raises
    /\ r.status_code = HttpOk
    /\ r.deleted_at = None
    /\ TruthyText(OrText(r.directDL, r.lien))

\* darkiworld.py 416-438: is_available
verify_link_availability(r) ==
    /\ ~r.raises
    /\ r.status_code = HttpOk
    /\ r.deleted_at = None
    /\ r.active = 1
    /\ TruthyText(OrText(r.directDL, r.lien))

\* darkiworld.py 540-545: the URL the link is given
download_url(lien_info) ==
    LET url == OrText(lien_info.directDL, lien_info.lien)
    IN  IF TruthyText(url) /\ Contains(url, <<"send.cm/">>)
        THEN [i \in 1..Len(url) |-> IF url[i] = "send.cm/" THEN "send.now/" ELSE url[i]]
        ELSE url

\* darkiworld.py 547-549
Enriched(link, lien_info) ==
    [id |-> link.id, episode |-> link.episode, quality |-> link.quality, host |-> link.host,
     download_url |-> download_url(lien_info), verified |-> TRUE]

\* one verify_single of a gather: not started; awaiting the answer to its
\* POST; returned (probed: it sent a POST; kept: it returned the link)
\* auth: the session was authenticated when it started
Pending == [st |-> "pending", auth |-> TRUE, probed |-> FALSE, resp |-> NoResponse, kept |-> FALSE]
InFlightProbe == [st |-> "flight", auth |-> TRUE, probed |-> TRUE, resp |-> NoResponse, kept |-> FALSE]
Skipped(authenticated) ==
    [st |-> "done", auth |-> authenticated, probed |-> FALSE, resp |-> NoResponse, kept |-> FALSE]
Returned(r) ==
    [st |-> "done", auth |-> TRUE, probed |-> TRUE, resp |-> r, kept |-> verify_link_availability(r)]

\* Batch, but the gather takes every link that is left
Batch_All(i, n, batch_size) == (i + 1)..n

\* darkiworld.py 558-559: the positions of links_to_verify[i:i + batch_size]
Batch(i, n, batch_size) == (i + 1)..(IF i + batch_size < n THEN i + batch_size ELSE n)

NewVerify(all_links, max_links, batch_size) ==
    [pc |-> "start", all_links |-> all_links, max_links |-> max_links, batch_size |-> batch_size,
     diversified_links |-> <<>>, links_to_verify |-> <<>>, i |-> 0, tasks |-> <<>>,
     verified_links |-> <<>>]

\* darkiworld.py 464-529, 555-558: from the listing's return to the first
\* gather
Diversify ==
    /\ verify.pc = "start"
    /\ verify' =
        IF verify.all_links = <<>>
        THEN [verify EXCEPT !.pc = "done"]
        ELSE LET todo == links_to_verify(verify.all_links, verify.max_links)
             IN  [verify EXCEPT !.diversified_links = diversified_links(verify.all_links),
                                !.links_to_verify = todo,
                                !.tasks = [j \in 1..Len(todo) |-> Pending],
                                !.pc = IF todo = <<>> THEN "done" ELSE "gather"]
    /\ UNCHANGED <<manager_vars, listing, session, feed>>

\* darkiworld.py 531-536, 400-408: a verify_single of the gather runs up to
\* its POST; it returns at once for a link without id and when the session
\* cannot be authenticated
VerifySingle(j, authenticated) ==
    /\ verify.pc = "gather"
    /\ j \in Batch(verify.i, Len(verify.links_to_verify), verify.batch_size)
    /\ verify.tasks[j].st = "pending"
    /\ verify' = [verify EXCEPT !.tasks[j] =
                    IF verify.links_to_verify[j].id = NoId THEN Skipped(TRUE)
                    ELSE IF ~authenticated THEN Skipped(FALSE)
                    ELSE InFlightProbe]
    /\ UNCHANGED <<manager_vars, listing, session, feed>>

\* darkiworld.py 410-442, 538-551: the POST is answered
ProbeReturns(j, r) ==
    /\ verify.pc = "gather"
    /\ j \in DOMAIN verify.tasks
    /\ verify.tasks[j].st = "flight"
    /\ verify' = [verify EXCEPT !.tasks[j] = Returned(r)]
    /\ UNCHANGED <<manager_vars, listing, session, feed>>

\* darkiworld.py 558-563: the gather returns, its links are kept in the
\* batch's order and the loop goes on or the call returns
GatherReturns ==
    /\ verify.pc = "gather"
    /\ LET n == Len(verify.links_to_verify)
           batch == Batch(verify.i, n, verify.batch_size)
           lo == verify.i + 1
           hi == IF verify.i + verify.batch_size < n THEN verify.i + verify.batch_size ELSE n
           results == [k \in 1..(hi - lo + 1) |-> lo + k - 1]
           kept == SelectSeq(results, LAMBDA j : verify.tasks[j].kept)
       IN  /\ \A j \in batch : verify.tasks[j].st = "done"
           /\ verify' = [verify EXCEPT
                  !.verified_links = @ \o [k \in 1..Len(kept) |->
                        Enriched(verify.links_to_verify[kept[k]], verify.tasks[kept[k]].resp)],
                  !.i = @ + verify.batch_size,
                  !.pc = IF verify.i + verify.batch_size >= n THEN "done" ELSE "gather"]
    /\ UNCHANGED <<manager_vars, listing, session, feed>>

(***************************************************************************)
(* darkiworld.py 242-330: get_title_links.  What the upstream answers to   *)
(* each page request is an input.                                          *)
(***************************************************************************)
PerPageCap == 42
PageLimit == 50

PageResponse(raises, status_code, status, len) ==
    [raises |-> raises, status_code |-> status_code, status |-> status, len |-> len]

PageLens == {0, 1, PerPageCap - 1, PerPageCap, PerPageCap + 1}

PageResponses ==
    { PageResponse(TRUE, 0, "", 0),
      PageResponse(FALSE, 500, "", 0),
      PageResponse(FALSE, HttpOk, "error", PerPageCap) }
    \cup { PageResponse(FALSE, HttpOk, "success", n) : n \in PageLens }

\* status_code: the status of the last answer (0: none, or none received)
NewListing ==
    [pc |-> "start", page |-> 1, requests |-> 0, fetched |-> 0, lastlen |-> 0, status_code |-> 0]

\* darkiworld.py 253-262
GetTitleLinks(authenticated) ==
    /\ listing.pc = "start"
    /\ listing' = [listing EXCEPT !.pc = IF authenticated THEN "request" ELSE "done"]
    /\ UNCHANGED <<manager_vars, verify, session, feed>>

\* PageStep, but a refused request is sent again
PageStep_Retry(l, r) ==
    LET asked == [l EXCEPT !.requests = @ + 1,
                           !.status_code = IF r.raises THEN 0 ELSE r.status_code]
    IN  IF r.raises THEN [asked EXCEPT !.pc = "done", !.fetched = 0]
        ELSE IF r.status_code # HttpOk THEN asked
        ELSE IF r.status # "success" THEN [asked EXCEPT !.pc = "done"]
        ELSE IF r.len = 0 THEN [asked EXCEPT !.pc = "done", !.lastlen = 0]
        ELSE IF r.len < PerPageCap
        THEN [asked EXCEPT !.pc = "done", !.lastlen = r.len, !.fetched = @ + r.len]
        ELSE IF l.page + 1 > PageLimit
        THEN [asked EXCEPT !.pc = "done", !.lastlen = r.len, !.fetched = @ + r.len, !.page = @ + 1]
        ELSE [asked EXCEPT !.lastlen = r.len, !.fetched = @ + r.len, !.page = @ + 1]

\* darkiworld.py 264-330: one turn of the loop
PageStep(l, r) ==
    LET asked == [l EXCEPT !.requests = @ + 1,
                           !.status_code = IF r.raises THEN 0 ELSE r.status_code]
    IN  IF r.raises THEN [asked EXCEPT !.pc = "done", !.fetched = 0]
        ELSE IF r.status_code # HttpOk THEN [asked EXCEPT !.pc = "done"]
        ELSE IF r.status # "success" THEN [asked EXCEPT !.pc = "done"]
        ELSE IF r.len = 0 THEN [asked EXCEPT !.pc = "done", !.lastlen = 0]
        ELSE IF r.len < PerPageCap
        THEN [asked EXCEPT !.pc = "done", !.lastlen = r.len, !.fetched = @ + r.len]
        ELSE IF l.page + 1 > PageLimit
        THEN [asked EXCEPT !.pc = "done", !.lastlen = r.len, !.fetched = @ + r.len, !.page = @ + 1]
        ELSE [asked EXCEPT !.lastlen = r.len, !.fetched = @ + r.len, !.page = @ + 1]

PageReturns(r) ==
    /\ listing.pc = "request"
    /\ listing' = PageStep(listing, r)
    /\ UNCHANGED <<manager_vars, verify, session, feed>>

(***************************************************************************)
(* The specifications of the darkiworld client.                            *)
(***************************************************************************)
MaxLinkId == 2
MaxEpisode == 1
MaxDiscovered == 3
MaxRanked == 2
MaxToCheck == 3
MaxBatch == 2

\* the default arguments of get_title_links_verified (darkiworld.py 448-449)
DefaultMaxLinks == 20
DefaultBatchSize == 5

SeqsUpTo(S, n) == UNION {[1..k -> S] : k \in 0..n}

LinkIds == 0..MaxLinkId
Episodes == {NoEpisode} \cup 0..MaxEpisode

\* short lists of links of every quality and host
RankedLists ==
    SeqsUpTo({Link(id, ep, q, h) : id \in LinkIds, ep \in Episodes, q \in Qualities, h \in Hosts},
             MaxRanked)

\* longer lists of links of two qualities on one host
EpisodeLists ==
    SeqsUpTo({Link(id, ep, q, HostOther) : id \in LinkIds, ep \in Episodes, q \in {Qual1080, Qual720}},
             MaxDiscovered)

\* lists of links of one quality on one host
ProbedLists ==
    SeqsUpTo({Link(id, ep, Qual1080, HostOther) : id \in LinkIds, ep \in 0..MaxEpisode},
             MaxDiscovered)

InitDiversify ==
    /\ Fresh
    /\ listing = NoCall
    /\ session = NoCall
    /\ feed = NoCall
    /\ \E all_links \in RankedLists \cup EpisodeLists :
            verify = NewVerify(all_links, DefaultMaxLinks, DefaultBatchSize)

NextDiversify == Diversify

SpecDiversify == InitDiversify /\ [][NextDiversify]_vars

InitVerify ==
    /\ Fresh
    /\ listing = NoCall
    /\ session = NoCall
    /\ feed = NoCall
    /\ \E all_links \in ProbedLists, max_links \in 1..MaxToCheck, batch_size \in 1..MaxBatch :
            verify = NewVerify(all_links, max_links, batch_size)

NextVerify ==
    \/ Diversify
    \/ \E j \in 1..MaxToCheck, authenticated \in BOOLEAN : VerifySingle(j, authenticated)
    \/ \E j \in 1..MaxToCheck, r \in ProbeResponses : ProbeReturns(j, r)
    \/ GatherReturns

SpecVerify == InitVerify /\ [][NextVerify]_vars

InitListing ==
    /\ Fresh
    /\ listing = NewListing
    /\ verify = NoCall
    /\ session = NoCall
    /\ feed = NoCall

NextListing ==
    \/ \E authenticated \in BOOLEAN : GetTitleLinks(authenticated)
    \/ \E r \in PageResponses : PageReturns(r)

\* a request is answered or times out (the client's timeout, darkiworld.py 38)
SpecListing == InitListing /\ [][NextListing]_vars /\ WF_vars(NextListing)

(***************************************************************************)
(* darkiworld.py 676-697: search_with_links asks for the verified links of *)
(* a title and keeps those of the requested episode.  What the upstream    *)
(* answers to the probe of a link depends on the link's id.                *)
(***************************************************************************)
AliveAnswer == Response(FALSE, HttpOk, None, 1, NoText, UrlPlain)
DeadAnswer == Response(FALSE, HttpOk, None, 0, UrlPlain, UrlPlain)
UpstreamAnswers == [1..MaxLinkId -> {AliveAnswer, DeadAnswer}]

\* the probe of a link is answered as the upstream answers for its id
ProbeAnswered(j) ==
    /\ j \in DOMAIN verify.links_to_verify
    /\ ProbeReturns(j, verify.upstream[verify.links_to_verify[j].id])

\* darkiworld.py 686-697: the requested episode's links and the season packs
\* are kept, for a series search that names an episode
FilterEpisode ==
    /\ verify.pc = "done"
    /\ verify' = [verify EXCEPT
          !.pc = "returned",
          !.links = SelectSeq(verify.verified_links,
                              LAMBDA link : \/ link.episode = verify.episode
                                            \/ link.episode = NoEpisode
                                            \/ link.episode = 0)]
    /\ UNCHANGED <<manager_vars, listing, session, feed>>

InitEpisode ==
    /\ Fresh
    /\ listing = NoCall
    /\ session = NoCall
    /\ feed = NoCall
    /\ \E all_links \in ProbedLists, max_links \in 1..MaxToCheck, batch_size \in 1..MaxBatch,
          upstream \in UpstreamAnswers, episode \in 1..MaxEpisode :
            verify = NewVerify(all_links, max_links, batch_size)
                        @@ [episode |-> episode, upstream |-> upstream, links |-> <<>>]

\* the session stays authenticated during the call
NextEpisode ==
    \/ Diversify
    \/ \E j \in 1..MaxToCheck : VerifySingle(j, TRUE)
    \/ \E j \in 1..MaxToCheck : ProbeAnswered(j)
    \/ GatherReturns
    \/ FilterEpisode

SpecEpisode == InitEpisode /\ [][NextEpisode]_vars

(***************************************************************************)
(* darkiworld.py 60-112: ensure_authenticated and the session cache.  A    *)
(* cookie dict is an object: self._cookies names the dict of the caller    *)
(* that last replaced it (0: the dict of __init__).  A cookie's value is   *)
(* the number of the caller whose authentication request it answers.       *)
(***************************************************************************)
SessionWindow == 3600

MaxCallers == 2
MaxRacers == 3
MaxCalls == 3
MaxHalfHours == 3

Callers == 1..MaxCallers
Racers == 1..MaxRacers
CatalogOps == {"search", "links", "probe", "resolve"}

\* config.py 19-20: the remember-me cookie's name and value, "" by default
CookieSettings == [name : {"", "remember_web"}, value : {"", "secret"}]

EmptyJar == [remember |-> FALSE, session |-> 0, xsrf |-> 0]
IdleCaller ==
    [pc |-> "idle", op |-> "none", ok |-> FALSE, sent |-> FALSE, jar |-> EmptyJar,
     raises |-> FALSE, status_code |-> 0]

NewSession(settings, callers) ==
    [settings |-> settings, valid_until |-> NoTime, cookies |-> 0,
     dicts |-> [o \in {0} \cup callers |-> EmptyJar], xsrf_token |-> 0,
     now |-> 0, calls |-> 0, auths |-> 0, callers |-> [c \in callers |-> IdleCaller]]

\* what the upstream answers to the authentication request of caller c: the
\* request fails; a session is granted; the page is served to a guest; the
\* upstream refuses
AuthResponse(raises, status_code, session_cookie, xsrf_cookie) ==
    [raises |-> raises, status_code |-> status_code, session |-> session_cookie, xsrf |-> xsrf_cookie]
Granted(c) == AuthResponse(FALSE, HttpOk, c, c)
AuthResponses(c) ==
    { AuthResponse(TRUE, 0, 0, 0), Granted(c),
      AuthResponse(FALSE, HttpOk, 0, c), AuthResponse(FALSE, 503, 0, 0) }

\* darkiworld.py 64: the cached session is still valid
SessionValid(s) == s.valid_until # NoTime /\ s.now < s.valid_until

\* HasCredentials, but the cookie's name alone is looked at
HasCredentials_NameOnly(settings) == settings.name # ""

\* darkiworld.py 67-72
HasCredentials(settings) == settings.name # "" /\ settings.value # ""

\* TargetDict, but each caller fills the dict it made itself
TargetDict_Own(s, c) == c

\* darkiworld.py 91-92: the response's cookies go into self._cookies, the
\* dict that is current when the response arrives
TargetDict(s, c) == s.cookies

\* AuthSucceeds, but any answer counts
AuthSucceeds_AnyAnswer(r, jar) == TRUE

\* darkiworld.py 101
AuthSucceeds(r, jar) == r.status_code = HttpOk /\ jar.session # 0

\* the caller's catalog request leaves with self._cookies (e.g. 177-182)
SendsRequest(s, c, op) ==
    [s EXCEPT !.callers[c] = [pc |-> "done", op |-> op, ok |-> TRUE, sent |-> TRUE,
                              jar |-> s.dicts[s.cookies],
                              raises |-> s.callers[c].raises,
                              status_code |-> s.callers[c].status_code]]

\* the caller's operation returns its empty value (e.g. 171-172)
ReturnsEmpty(s, c, op) ==
    [s EXCEPT !.callers[c].pc = "done", !.callers[c].op = op,
              !.callers[c].ok = FALSE, !.callers[c].sent = FALSE]

\* darkiworld.py 60-89: a catalog operation starts and runs up to the
\* authentication request, or past ensure_authenticated to its own request
Called(c, op) ==
    LET s == [session EXCEPT !.calls = @ + 1, !.callers[c] = IdleCaller]
    IN  IF SessionValid(s) THEN SendsRequest(s, c, op)
        ELSE IF ~HasCredentials(s.settings) THEN ReturnsEmpty(s, c, op)
        ELSE [s EXCEPT !.cookies = c,
                       !.dicts[c] = [EmptyJar EXCEPT !.remember = TRUE],
                       !.auths = @ + 1,
                       !.callers[c].pc = "auth",
                       !.callers[c].op = op]

Call(c, op) ==
    /\ session.callers[c].pc \in {"idle", "done"}
    /\ session.calls < MaxCalls
    /\ session' = Called(c, op)
    /\ UNCHANGED <<manager_vars, listing, verify, feed>>

\* darkiworld.py 86-112: the session once the authentication request of
\* caller c is answered
AuthReturned(c, r) ==
    LET op == session.callers[c].op
        seen == [session EXCEPT !.callers[c].raises = r.raises,
                                !.callers[c].status_code = r.status_code]
        target == TargetDict(session, c)
        filled == [seen EXCEPT
                     !.dicts[target].session = IF r.session # 0 THEN r.session ELSE @,
                     !.dicts[target].xsrf = IF r.xsrf # 0 THEN r.xsrf ELSE @,
                     !.xsrf_token = IF r.xsrf # 0 THEN r.xsrf ELSE @]
    IN  IF r.raises THEN ReturnsEmpty(seen, c, op)
        ELSE IF AuthSucceeds(r, filled.dicts[filled.cookies])
        THEN SendsRequest([filled EXCEPT !.valid_until = filled.now + SessionWindow], c, op)
        ELSE ReturnsEmpty(filled, c, op)

AuthReturns(c, r) ==
    /\ session.callers[c].pc = "auth"
    /\ session' = AuthReturned(c, r)
    /\ UNCHANGED <<manager_vars, listing, verify, feed>>

\* half an hour passes
SessionTick ==
    /\ session.now < MaxHalfHours * (SessionWindow \div 2)
    /\ session' = [session EXCEPT !.now = @ + SessionWindow \div 2]
    /\ UNCHANGED <<manager_vars, listing, verify, feed>>

InitSession ==
    /\ Fresh
    /\ listing = NoCall
    /\ verify = NoCall
    /\ feed = NoCall
    /\ \E settings \in CookieSettings : session = NewSession(settings, Callers)

NextSession ==
    \/ \E c \in Callers, op \in CatalogOps : Call(c, op)
    \/ \E c \in Callers : \E r \in AuthResponses(c) : AuthReturns(c, r)
    \/ SessionTick

SpecSession == InitSession /\ [][NextSession]_vars

\* callers race to authenticate against an upstream that grants a session
InitRace ==
    /\ Fresh
    /\ listing = NoCall
    /\ verify = NoCall
    /\ feed = NoCall
    /\ session = NewSession([name |-> "remember_web", value |-> "secret"], Racers)

NextRace ==
    \/ \E c \in Racers, op \in CatalogOps : Call(c, op)
    \/ \E c \in Racers : AuthReturns(c, Granted(c))
    \/ SessionTick

SpecRace == InitRace /\ [][NextRace]_vars

(***************************************************************************)
(* The key check of the two facades: sabnzbd.py 19-57, newznab.py 715-774  *)
(* and 927-940.  A request is answered, or handed to the handler of its    *)
(* mode, in one step of the event loop.                                    *)
(***************************************************************************)
MaxRequests == 2

\* config.py 12: the shared secret
api_key == "ddl-indexarr"

\* the key a request carries: the secret, none (the parameter's default) or another
OfferedKeys == {api_key, "", "guess"}

DigitChars == {"0", "1", "2", "3", "4", "5", "6", "7", "8", "9"}

\* int(query_params.get("start", 0)) raises on a text that is no number
IntRaises(t) == t # NoText /\ (t = <<>> \/ \E i \in 1..Len(t) : t[i] \notin DigitChars)

StartTexts == {NoText, <<"0">>, <<"x">>}

\* the requests: newznab_api declares no start parameter and converts the
\* raw text itself (newznab.py 759)
FacadeRequests ==
    {r \in [path : {"/sabnzbd/api", "/api", "/nzb"},
            mode : {"", "version", "queue", "addurl"},
            name : {"", "delete"},
            t : {"caps", "search"},
            apikey : OfferedKeys,
            start : StartTexts] :
        /\ r.path # "/api" => r.start = NoText
        /\ r.path = "/nzb" => r.mode = "" /\ r.name = "" /\ r.t = "caps"
        /\ r.path = "/sabnzbd/api" => r.t = "caps"}

NoRequest == [path |-> "", mode |-> "", name |-> "", t |-> "", apikey |-> "", start |-> NoText]
NewFeed == [pc |-> "idle", n |-> 0, req |-> NoRequest, response |-> ""]

\* sabnzbd.py 44-57 and the dispatch on the mode (59-216): the fixed answer,
\* or the handler that serves the request
sabnzbd_api(mode, name, apikey) ==
    IF mode # "version" /\ apikey # api_key THEN "API Key Incorrect"
    ELSE IF mode = "version" THEN "version"
    ELSE IF name = "delete" /\ mode \in {"queue", "history"} THEN "delete"
    ELSE IF mode \in {"queue", "addurl"} THEN mode
    ELSE "not implemented"

\* newznab.py 748-774
newznab_api(req) ==
    IF req.mode # ""
    THEN IF IntRaises(req.start) THEN "Internal Server Error"
         ELSE sabnzbd_api(req.mode, req.name, req.apikey)
    ELSE IF req.t = "caps" THEN "caps"
    ELSE IF req.apikey # api_key THEN "Incorrect API Key"
    ELSE "search"

\* newznab.py 937-940
get_nzb(req) == IF req.apikey # api_key THEN "401" ELSE "nzb"

Respond(req) ==
    CASE req.path = "/sabnzbd/api" -> sabnzbd_api(req.mode, req.name, req.apikey)
      [] req.path = "/api" -> newznab_api(req)
      [] req.path = "/nzb" -> get_nzb(req)

\* a facade request arrives and runs up to its answer or its first await
Serve(req) ==
    /\ LoopFree
    /\ feed.pc = "idle"
    /\ feed.n < MaxRequests
    /\ LET out == Respond(req)
       IN  /\ feed' = [feed EXCEPT !.n = @ + 1, !.req = req, !.response = out]
           /\ CASE out = "delete" ->
                      /\ \/ \E key \in Keys(heap, downloads) : DeleteDownload(key)
                         \/ ClearAll
                      /\ UNCHANGED <<listing, verify, session>>
                [] out = "queue" ->
                      /\ UpdateAllProgress("queue")
                      /\ UNCHANGED <<listing, verify, session>>
                [] out = "addurl" ->
                      /\ \E payload \in Payloads, cat \in Categories :
                            nextId <= MaxReconIds /\ AddurlCreate(payload, cat)
                      /\ UNCHANGED <<listing, verify, session>>
                [] out = "search" ->
                      /\ session.callers[1].pc \in {"idle", "done"}
                      /\ session.calls < MaxCalls
                      /\ session' = Called(1, "search")
                      /\ UNCHANGED <<manager_vars, listing, verify>>
                [] OTHER -> UNCHANGED <<manager_vars, listing, verify, session>>

InitFacade ==
    /\ Fresh
    /\ listing = NoCall
    /\ verify = NoCall
    /\ session = NewSession([name |-> "remember_web", value |-> "secret"], {1})
    /\ feed = NewFeed

\* the requests, and the rest of the handlers they start
NextFacade ==
    \/ \E req \in FacadeRequests : Serve(req)
    \/ \E d \in Ids, r \in CoreResults : AddurlSubmitted(d, r) /\ UNCHANGED client_vars
    \/ \E packages \in CoreLists : LookupByUuid("queue", packages) /\ UNCHANGED client_vars
    \/ \E packages \in CoreLists : LookupByName("queue", packages) /\ UNCHANGED client_vars
    \/ \E named \in BOOLEAN : PackageFiles("queue", named) /\ UNCHANGED client_vars
    \/ \E r \in AuthResponses(1) : AuthReturns(1, r)

SpecFacade == InitFacade /\ [][NextFacade]_vars

(***************************************************************************)
(* newznab.py: the items of a search answer.  A link's quality is the text *)
(* the catalog gives (darkiworld.py 337, 373); texts are strings here, and *)
(* a byte count is a number of whole GiB and the bytes beyond them.        *)
(***************************************************************************)
UpperLetters == "ABCDEFGHIJKLMNOPQRSTUVWXYZ"
LowerLetters == "abcdefghijklmnopqrstuvwxyz"

\* the character of `to` that stands where c stands in `from`, else c
MapChar(c, from, to) ==
    IF \E i \in 1..Len(from) : SubSeq(from, i, i) = c
    THEN LET i == CHOOSE j \in 1..Len(from) : SubSeq(from, j, j) = c IN SubSeq(to, i, i)
    ELSE c

RECURSIVE MapChars(_, _, _)
MapChars(s, from, to) ==
    IF s = "" THEN ""
    ELSE MapChar(SubSeq(s, 1, 1), from, to) \o MapChars(SubSeq(s, 2, Len(s)), from, to)

\* str.lower() and str.upper()
str_lower(s) == MapChars(s, UpperLetters, LowerLetters)
str_upper(s) == MapChars(s, LowerLetters, UpperLetters)

\* any(x in q for x in pats)
ContainsAny(q, pats) == \E x \in pats : Contains(q, x)

MOVIE == "movie"
TV == "tv"
MUSIC == "music"
MediaTypes == {MOVIE, TV, MUSIC}

\* newznab.py 173-230
QUALITY_MAPPING ==
    ("ULTRA HD (x265)" :> "Bluray-2160p") @@ ("ULTRA HD" :> "Bluray-2160p")
    @@ ("UHD (x265)" :> "Bluray-2160p") @@ ("UHD" :> "Bluray-2160p")
    @@ ("Ultra HDLight (x265)" :> "WEBDL-2160p") @@ ("Ultra HDLight" :> "WEBDL-2160p")
    @@ ("REMUX UHD" :> "Bluray-2160p Remux") @@ ("REMUX 4K" :> "Bluray-2160p Remux")
    @@ ("REMUX BLURAY 2160p" :> "Bluray-2160p Remux")
    @@ ("4K" :> "WEBDL-2160p") @@ ("2160p" :> "WEBDL-2160p")
    @@ ("REMUX BLURAY" :> "Bluray-1080p Remux") @@ ("REMUX" :> "Bluray-1080p Remux")
    @@ ("REMUX 1080p" :> "Bluray-1080p Remux")
    @@ ("Bluray 1080p" :> "Bluray-1080p") @@ ("Bluray" :> "Bluray-1080p")
    @@ ("BDRip 1080p" :> "Bluray-1080p") @@ ("BRRip 1080p" :> "Bluray-1080p")
    @@ ("HDLight 1080p (x265)" :> "WEBDL-1080p") @@ ("HDLight 1080p" :> "WEBDL-1080p")
    @@ ("WEB 1080p" :> "WEBDL-1080p") @@ ("WEB-DL 1080p" :> "WEBDL-1080p")
    @@ ("WEBDL 1080p" :> "WEBDL-1080p") @@ ("WEBRip 1080p" :> "WEBRip-1080p")
    @@ ("1080p" :> "WEBDL-1080p")
    @@ ("Bluray 720p" :> "Bluray-720p") @@ ("HDLight 720p (x265)" :> "WEBDL-720p")
    @@ ("HDLight 720p" :> "WEBDL-720p") @@ ("WEB-DL 720p" :> "WEBDL-720p")
    @@ ("WEBRip 720p" :> "WEBRip-720p") @@ ("720p" :> "WEBDL-720p")
    @@ ("DVDRIP" :> "DVD") @@ ("DVDRip" :> "DVD") @@ ("DVD" :> "DVD")
    @@ ("HDTV 1080p" :> "HDTV-1080p") @@ ("HDTV 720p" :> "HDTV-720p")
    @@ ("HDTV" :> "HDTV-1080p")
    @@ ("Blu-Ray 3D" :> "Bluray-1080p") @@ ("REMUX 3D" :> "Bluray-1080p Remux")
    @@ ("ISO" :> "BR-DISK") @@ ("Autre" :> "WEBDL-1080p")

\* newznab.py 359-371: the resolution the fallback reads from the text
resolution_of(quality_lower) ==
    IF ContainsAny(quality_lower, {"2160", "4k", "uhd", "ultra hd"}) THEN "2160p"
    ELSE IF Contains(quality_lower, "1080") THEN "1080p"
    ELSE IF Contains(quality_lower, "720") THEN "720p"
    ELSE IF ContainsAny(quality_lower, {"480", "sd"}) THEN "480p"
    ELSE "1080p"

\* newznab.py 373-387: the release type, "DVD" standing for the bare return
quality_type_of(quality_lower) ==
    IF Contains(quality_lower, "remux") THEN "Remux"
    ELSE IF ContainsAny(quality_lower, {"bluray", "bdrip", "brrip"}) THEN "Bluray"
    ELSE IF Contains(quality_lower, "webrip") THEN "WEBRip"
    ELSE IF ContainsAny(quality_lower, {"hdlight", "web-dl", "webdl", "web "}) THEN "WEBDL"
    ELSE IF Contains(quality_lower, "hdtv") THEN "HDTV"
    ELSE IF Contains(quality_lower, "dvd") THEN "DVD"
    ELSE "WEBDL"

\* normalize_quality, but the table is not consulted
normalize_quality_HeuristicOnly(raw_quality) ==
    IF raw_quality = "" \/ raw_quality = "Unknown" THEN "WEBDL-1080p"
    ELSE LET quality_lower == str_lower(raw_quality)
         IN  IF quality_type_of(quality_lower) = "DVD" THEN "DVD"
             ELSE quality_type_of(quality_lower) \o "-" \o resolution_of(quality_lower)

\* newznab.py 344-389
normalize_quality(raw_quality) ==
    IF raw_quality = "" \/ raw_quality = "Unknown" THEN "WEBDL-1080p"
    ELSE IF raw_quality \in DOMAIN QUALITY_MAPPING THEN QUALITY_MAPPING[raw_quality]
    ELSE LET quality_lower == str_lower(raw_quality)
         IN  IF quality_type_of(quality_lower) = "DVD" THEN "DVD"
             ELSE quality_type_of(quality_lower) \o "-" \o resolution_of(quality_lower)

\* newznab.py 578-607
get_category_for_quality(quality, media_type) ==
    LET q == str_lower(quality)
    IN  CASE media_type = MOVIE ->
               IF ContainsAny(q, {"2160", "uhd"}) THEN "2045"
               ELSE IF ContainsAny(q, {"remux", "bluray"}) THEN "2050"
               ELSE IF ContainsAny(q, {"1080", "720"}) THEN "2040"
               ELSE IF ContainsAny(q, {"sd", "dvd", "480"}) THEN "2030"
               ELSE "2040"
          [] media_type = TV ->
               IF ContainsAny(q, {"2160", "uhd"}) THEN "5045"
               ELSE IF ContainsAny(q, {"1080", "720"}) THEN "5040"
               ELSE IF Contains(q, "web") THEN "5010"
               ELSE "5040"
          [] media_type = MUSIC ->
               IF ContainsAny(q, {"flac", "lossless"}) THEN "3040"
               ELSE "3010"
          [] OTHER -> "2000"

\* byte counts
GiB == 1024 * 1024 * 1024
MiB == 1024 * 1024
Bytes(gib, rest) == [gib |-> gib + rest \div GiB, rest |-> rest % GiB]
NoSize == [gib |-> -1, rest |-> 0]
SizeLess(a, b) == a.gib < b.gib \/ (a.gib = b.gib /\ a.rest < b.rest)

\* newznab.py 895, 897: 100_000_000
SizeFloor == 100000000

\* int(m / d * unit) for a unit that is the square of root: the product is
\* taken in two halves
IntOfProduct(m, d, root) ==
    LET whole == m \div d
        frac == m % d
        high == (frac * root) \div d
        low == (((frac * root) % d) * root) \div d
    IN  IF root * root = GiB THEN Bytes(whole, high * root + low)
        ELSE Bytes(0, whole * root * root + high * root + low)

\* the digits of a text as a number
RECURSIVE DecimalValue(_)
DecimalValue(s) ==
    IF s = "" THEN 0
    ELSE 10 * DecimalValue(SubSeq(s, 1, Len(s) - 1))
            + (CHOOSE v \in 0..9 : SubSeq("0123456789", v + 1, v + 1) = SubSeq(s, Len(s), Len(s)))

RECURSIVE Without(_, _)
Without(s, c) ==
    IF s = "" THEN ""
    ELSE (IF SubSeq(s, 1, 1) = c THEN "" ELSE SubSeq(s, 1, 1)) \o Without(SubSeq(s, 2, Len(s)), c)

RECURSIVE Pow10(_)
Pow10(k) == IF k = 0 THEN 1 ELSE 10 * Pow10(k - 1)

\* newznab.py 258, 262: float(text.replace(',', '.')) of a text of digits,
\* dots and commas, as a fraction m / d; it raises on two dots or no digit
float(size_str) ==
    LET text == MapChars(size_str, ",", ".")
        digits == Without(text, ".")
        dots == Len(text) - Len(digits)
        point == IF dots = 0 THEN Len(text) + 1
                 ELSE CHOOSE i \in 1..Len(text) : SubSeq(text, i, i) = "."
    IN  IF dots > 1 \/ digits = "" THEN [raises |-> TRUE, m |-> 0, d |-> 1]
        ELSE [raises |-> FALSE, m |-> DecimalValue(digits),
              d |-> Pow10(IF dots = 0 THEN 0 ELSE Len(text) - point)]

\* a note's size line, as the patterns of newznab.py 251-254 see it: the
\* words before the colon, the number and the unit; a note without such a
\* line has label ""
SizeLine(label, number, unit) == [label |-> label, number |-> number, unit |-> unit]
NoSizeLine == SizeLine("", "", "")

size_patterns == <<"file size", "size">>

\* re.search(pattern, nfo_text, re.IGNORECASE): "Size :" is found in
\* "File size :" as well
Matches(pattern, line) ==
    /\ Len(line.label) >= Len(pattern)
    /\ SubSeq(str_lower(line.label), Len(line.label) - Len(pattern) + 1, Len(line.label)) = pattern
    /\ str_upper(line.unit) \in {"GIB", "GB", "MIB", "MB"}

\* newznab.py 233-272
extract_size_from_nfo(nfo_data) ==
    IF nfo_data = <<>> THEN NoSize
    ELSE LET line == nfo_data[1].nfo
             value == float(line.number)
             hits == {i \in 1..Len(size_patterns) : Matches(size_patterns[i], line) /\ ~value.raises}
         IN  IF hits = {} THEN NoSize
             ELSE IF str_upper(line.unit) \in {"GIB", "GB"}
             THEN IntOfProduct(value.m, value.d, 32 * 1024)
             ELSE IntOfProduct(value.m, value.d, 1024)

\* newznab.py 296-313: pattern, tenths of a GB for an episode and for a film
size_map ==
    << <<"REMUX UHD", 500, 700>>, <<"REMUX 4K", 500, 700>>, <<"ULTRA HD", 70, 150>>,
       <<"UHD", 70, 150>>, <<"2160", 60, 120>>, <<"REMUX", 250, 400>>,
       <<"BLURAY 1080", 40, 100>>, <<"1080", 20, 50>>, <<"HDLIGHT 1080", 15, 40>>,
       <<"720", 10, 25>>, <<"HDLIGHT 720", 8, 20>>, <<"DVD", 7, 15>>, <<"480", 5, 12>> >>

\* newznab.py 275-341
estimate_file_size(quality, media_type, is_season_pack) ==
    LET quality_upper == str_upper(quality)
        found == {i \in 1..Len(size_map) : Contains(quality_upper, size_map[i][1])}
        first == CHOOSE i \in found : \A j \in found : i <= j
        episode_size == IF found = {} THEN 15 ELSE size_map[first][2]
        movie_size == IF found = {} THEN 40 ELSE size_map[first][3]
        size_gb == IF media_type = TV
                   THEN (IF is_season_pack THEN episode_size * 10 ELSE episode_size)
                   ELSE IF media_type = MUSIC THEN 5
                   ELSE movie_size
    IN  IntOfProduct(size_gb, 10, 32 * 1024)

\* item_size, but any size the provider reports is accepted
item_size_AnyProvider(link, media_type) ==
    LET size == extract_size_from_nfo(link.nfo)
    IN  IF size = NoSize \/ size = Bytes(0, 0) \/ SizeLess(size, Bytes(0, SizeFloor))
        THEN IF SizeLess(Bytes(0, 0), link.size) THEN link.size
             ELSE estimate_file_size(link.quality, media_type,
                                     link.episode = NoEpisode \/ link.episode = 0)
        ELSE size

\* item_size, but the provider's size is accepted from the floor on
item_size_FromFloor(link, media_type) ==
    LET size == extract_size_from_nfo(link.nfo)
    IN  IF size = NoSize \/ size = Bytes(0, 0) \/ SizeLess(size, Bytes(0, SizeFloor))
        THEN IF ~SizeLess(link.size, Bytes(0, SizeFloor)) THEN link.size
             ELSE estimate_file_size(link.quality, media_type,
                                     link.episode = NoEpisode \/ link.episode = 0)
        ELSE size

\* newznab.py 892-905
item_size(link, media_type) ==
    LET size == extract_size_from_nfo(link.nfo)
    IN  IF size = NoSize \/ size = Bytes(0, 0) \/ SizeLess(size, Bytes(0, SizeFloor))
        THEN IF SizeLess(Bytes(0, SizeFloor), link.size) THEN link.size
             ELSE estimate_file_size(link.quality, media_type,
                                     link.episode = NoEpisode \/ link.episode = 0)
        ELSE size

\* newznab.py 859-914: the item of one link; quality is the canonical
\* quality its title carries (build_release_title, 480-495)
item_of(link, media_type) ==
    [quality |-> normalize_quality(link.quality),
     size |-> item_size(link, media_type),
     category |-> get_category_for_quality(link.quality, media_type)]

\* the qualities a link arrives with: the table's, none, and free texts
RawQualities ==
    DOMAIN QUALITY_MAPPING
    \cup {"", "Unknown", "x264", "2160p WEB", "WEBRip 4k", "Uhd HDTV", "DVD 4K",
          "UHD DVDRip", "4K HDLight 1080p", "SD", "Bluray 480p"}

\* the notes of a link
NfoInputs ==
    {<<>>, <<[nfo |-> NoSizeLine]>>}
    \cup {<<[nfo |-> SizeLine("File size", "0.5", "GB")]>>,
          <<[nfo |-> SizeLine("File Size", "1,36", "GiB")]>>,
          <<[nfo |-> SizeLine("Size", "0.09", "GB")]>>,
          <<[nfo |-> SizeLine("Size", "95.367432", "MB")]>>,
          <<[nfo |-> SizeLine("Size", "95", "MiB")]>>,
          <<[nfo |-> SizeLine("File size", "1.2.3", "GB")]>>,
          <<[nfo |-> SizeLine("Taille", "2", "Go")]>>}

\* the sizes the catalog reports (darkiworld.py 352, 378): none, 50 MB,
\* around the floor, and 3 GiB
ApiSizes ==
    {Bytes(0, 0), Bytes(0, 50 * 1000 * 1000), Bytes(0, SizeFloor - 1), Bytes(0, SizeFloor),
     Bytes(0, SizeFloor + 1), Bytes(3, 0)}

FeedLinks ==
    [quality : RawQualities, episode : {NoEpisode, 0, 1}, nfo : NfoInputs, size : ApiSizes]

NoItem == [quality |-> "", size |-> NoSize, category |-> ""]

\* newznab.py 857-914: the loop turns a link of the answer into an item
EmitItem ==
    /\ feed.pc = "link"
    /\ feed' = [feed EXCEPT !.pc = "item", !.item = item_of(feed.link, feed.media_type)]
    /\ UNCHANGED <<manager_vars, listing, verify, session>>

InitFeed ==
    /\ Fresh
    /\ listing = NoCall
    /\ verify = NoCall
    /\ session = NoCall
    /\ \E link \in FeedLinks, media_type \in MediaTypes :
          feed = [pc |-> "link", link |-> link, media_type |-> media_type, item |-> NoItem]

NextFeed == EmitItem

SpecFeed == InitFeed /\ [][NextFeed]_vars

(***************************************************************************)
(* newznab.py 776-924: a search request of the indexer facade.  The        *)
(* handler awaits the title resolver (24-170) when the request names an    *)
(* external identifier, then the catalog client's search_with_links        *)
(* (darkiworld.py 635-708), whose first await is ensure_authenticated.     *)
(***************************************************************************)
SearchRequests ==
    {r \in [path : {"/api"}, mode : {""}, name : {""}, start : {NoText},
            t : {"search", "movie", "tvsearch", "music"},
            apikey : {api_key, "guess"},
            q : {"", "Dune"},
            imdbid : {"", "tt1"},
            tmdbid : {"", "2"},
            tvdbid : {"", "3"},
            artist : {"", "Air"},
            album : {"", "Moon"}] :
        r.artist = "" => r.album = ""}

\* what resolve_*_to_title returns (newznab.py 24-170): the title, or None
\* when no TMDB key is configured, the identifier is unknown or the request fails
ResolvedTitles == {None, "Dune"}

\* str.strip() of spaces
RECURSIVE strip(_)
strip(s) ==
    IF s = "" THEN ""
    ELSE IF SubSeq(s, 1, 1) = " " THEN strip(SubSeq(s, 2, Len(s)))
    ELSE IF SubSeq(s, Len(s), Len(s)) = " " THEN strip(SubSeq(s, 1, Len(s) - 1))
    ELSE s

\* indexer.py 97-134 and newznab.py 785-787, for a request that names no category
get_indexer_by_search_type(search_type) ==
    CASE search_type = "movie" -> MOVIE
      [] search_type = "tvsearch" -> TV
      [] search_type \in {"music", "audio"} -> MUSIC
      [] OTHER -> MOVIE

\* newznab.py 689-708
create_test_items(search_type) ==
    CASE search_type \in {"movie", "m"} ->
            << [guid |-> "test-1", size |-> Bytes(8, 0), category |-> "2040"],
               [guid |-> "test-2", size |-> Bytes(30, 0), category |-> "2045"] >>
      [] search_type \in {"tvsearch", "tv"} ->
            << [guid |-> "test-tv-1", size |-> Bytes(2, 0), category |-> "5040"] >>
      [] search_type \in {"music", "audio"} ->
            << [guid |-> "test-music-1", size |-> Bytes(0, 524288000), category |-> "3040"] >>
      [] OTHER ->
            << [guid |-> "test-1", size |-> Bytes(8, 0), category |-> "2040"] >>

\* the catalog's answer to the search request (darkiworld.py 176-236), and
\* the titles search returns from it
SearchResponse(raises, status_code, results) ==
    [raises |-> raises, status_code |-> status_code, results |-> results]
NoAnswer == SearchResponse(FALSE, 0, <<>>)
SearchResponses ==
    { SearchResponse(TRUE, 0, <<>>), SearchResponse(FALSE, 503, <<>>),
      SearchResponse(FALSE, HttpOk, <<>>),
      SearchResponse(FALSE, HttpOk, <<[id |-> 1, have_link |-> 1]>>),
      SearchResponse(FALSE, HttpOk, <<[id |-> 1, have_link |-> 1], [id |-> 2, have_link |-> 0]>>) }

search(r) == IF r.raises \/ r.status_code # HttpOk THEN <<>> ELSE r.results

\* the verified links of a title (get_title_links_verified): none, or one
FoundLinks ==
    {<<>>,
     <<[id |-> 5, quality |-> "ULTRA HD (x265)", episode |-> NoEpisode, nfo |-> <<>>,
        size |-> Bytes(3, 0)]>>,
     <<[id |-> 6, quality |-> "HDLight 1080p", episode |-> 1, nfo |-> <<>>,
        size |-> Bytes(0, 0)]>>}

\* darkiworld.py 657-708: the links of the titles that have links, in order
RECURSIVE search_with_links(_, _)
search_with_links(titles, links_of) ==
    IF titles = <<>> THEN <<>>
    ELSE LET title == Head(titles)
             links == IF title.have_link = 0 \/ title.id = 0 THEN <<>>
                      ELSE [i \in 1..Len(links_of[title.id]) |->
                               [link |-> links_of[title.id][i], title_id |-> title.id]]
         IN  links \o search_with_links(Tail(titles), links_of)

\* newznab.py 857-914: the items of the links
items_of(links, media_type) ==
    [i \in 1..Len(links) |->
        [guid |-> "darkiworld-" \o ToString(links[i].title_id) \o "-" \o ToString(links[i].link.id),
         size |-> item_size(links[i].link, media_type),
         category |-> get_category_for_quality(links[i].link.quality, media_type)]]

NewSearch ==
    [pc |-> "idle", req |-> NoRequest, which |-> "", title |-> None, search_query |-> "",
     answer |-> NoAnswer, response |-> [kind |-> "", items |-> <<>>]]

\* the handler returns the feed of these items (916-924)
Answered(f, items) == [f EXCEPT !.pc = "done", !.response = [kind |-> "items", items |-> items]]

\* where the handler stands once ensure_authenticated has gone as far as it
\* can in session s: at the authentication request, at the search request,
\* or at its answer, search having returned [] (darkiworld.py 170-171, 660-661)
Searching(f, s) ==
    IF s.callers[1].pc = "auth" THEN [f EXCEPT !.pc = "auth"]
    ELSE IF s.callers[1].sent THEN [f EXCEPT !.pc = "catalog"]
    ELSE Answered(f, <<>>)

\* newznab.py 832-855: the test items when there is nothing to search for,
\* else the call of the catalog client
Proceed(f, search_query) ==
    LET g == [f EXCEPT !.search_query = search_query]
    IN  IF ~Truthy(search_query)
        THEN /\ feed' = Answered(g, create_test_items(f.req.t))
             /\ session' = session
        ELSE /\ session' = Called(1, "search")
             /\ feed' = Searching(g, Called(1, "search"))

\* newznab.py 748-828: the request arrives and runs up to its first await
SearchArrives(req) ==
    /\ LoopFree
    /\ feed.pc = "idle"
    /\ LET f == [feed EXCEPT !.req = req]
           which == CASE req.imdbid # "" -> "imdbid"
                      [] req.tmdbid # "" -> "tmdbid"
                      [] req.tvdbid # "" -> "tvdbid"
                      [] OTHER -> ""
       IN  IF newznab_api(req) # "search"
           THEN /\ feed' = [f EXCEPT !.pc = "done",
                                     !.response = [kind |-> newznab_api(req), items |-> <<>>]]
                /\ session' = session
           ELSE IF req.q # "" THEN Proceed(f, req.q)
           ELSE IF which # ""
           THEN /\ feed' = [f EXCEPT !.pc = "resolve", !.which = which]
                /\ session' = session
           ELSE IF req.artist # "" THEN Proceed(f, strip(req.artist \o " " \o req.album))
           ELSE Proceed(f, "")
    /\ UNCHANGED <<manager_vars, listing, verify>>

\* newznab.py 801-826: the resolver returns
ResolverReturns(resolved_title) ==
    /\ feed.pc = "resolve"
    /\ Proceed([feed EXCEPT !.title = resolved_title],
               IF Truthy(resolved_title) THEN resolved_title
               ELSE IF feed.which = "imdbid" THEN feed.req.imdbid
               ELSE None)
    /\ UNCHANGED <<manager_vars, listing, verify>>

\* the authentication request of the search is answered
SearchAuthReturns(r) ==
    /\ feed.pc = "auth"
    /\ session' = AuthReturned(1, r)
    /\ feed' = Searching(feed, AuthReturned(1, r))
    /\ UNCHANGED <<manager_vars, listing, verify>>

\* the catalog answers the search, and the links of its titles are found
CatalogAnswers(r, links_of) ==
    /\ feed.pc = "catalog"
    /\ feed' = Answered([feed EXCEPT !.answer = r],
                        items_of(search_with_links(search(r), links_of),
                                 get_indexer_by_search_type(feed.req.t)))
    /\ UNCHANGED <<manager_vars, listing, verify, session>>

InitSearch ==
    /\ Fresh
    /\ listing = NoCall
    /\ verify = NoCall
    /\ \E settings \in CookieSettings : session = NewSession(settings, {1})
    /\ feed = NewSearch

NextSearch ==
    \/ \E req \in SearchRequests : SearchArrives(req)
    \/ \E resolved_title \in ResolvedTitles : ResolverReturns(resolved_title)
    \/ \E r \in AuthResponses(1) : SearchAuthReturns(r)
    \/ \E r \in SearchResponses, links_of \in [{1, 2} -> FoundLinks] : CatalogAnswers(r, links_of)

SpecSearch == InitSearch /\ [][NextSearch]_vars

(***************************************************************************)
(* The claims of the specification.                                        *)
(***************************************************************************)

\* the steps of a reconciliation pass, by what the history records
ReconSteps == {"pass", "miss", "resolved", "unresolved", "files"}

\* C1: a download whose submission returned no identifier has status failed
\* and carries an error message.
C1_NoIdentifierFails ==
    \A d \in downloads :
        accept[d] = "noid" => heap[d].status = FAILED /\ heap[d].error_message # None

\* C2 as the specification states it: a step that resolves the package and
\* sees it finished leaves the download completed, at 100 percent, with a
\* completion timestamp, and with the save location the agent reports as
\* its output path.
C2_FinishedTakesSaveLocation ==
    [][(last'.op = "resolved" /\ last'.rep.finished /\ last'.d \in DOMAIN heap') =>
            LET dl == heap'[last'.d]
            IN  /\ dl.status = COMPLETED
                /\ dl.progress = 100
                /\ dl.completed_at # NoTime
                /\ dl.output_path = last'.rep.save_to]_vars

\* C2 as the code has it: a step that resolves the package and sees it
\* finished leaves the download completed, at 100 percent, with the time of
\* the step as completion timestamp; the output path is the save location
\* the agent reports when it reports one, and is left as it was when the
\* report carries none.
C2_FinishedCompletes ==
    [][(last'.op = "resolved" /\ last'.rep.finished /\ last'.d \in DOMAIN heap') =>
            LET dl == heap'[last'.d]
            IN  /\ dl.status = COMPLETED
                /\ dl.progress = 100
                /\ dl.completed_at = now
                /\ dl.output_path = IF last'.rep.save_to # <<>>
                                    THEN last'.rep.save_to
                                    ELSE heap[last'.d].output_path]_vars

\* C2's case: a finished package resolved with and without a save location
C2_Witness ==
    /\ last.op = "resolved"
    /\ last.rep.finished
    /\ last.rep.save_to = <<>>
    /\ heap[last.d].status = COMPLETED
    /\ heap[last.d].output_path = OutputFolder(heap[last.d].category, heap[last.d].title)

\* C3: no step of a reconciliation pass changes the status, the progress or
\* the completion timestamp of a download that is completed or failed.
C3_TerminalUntouched ==
    [][last'.op \in ReconSteps =>
            \A d \in (DOMAIN heap) \cap (DOMAIN heap') :
                Terminal(heap[d].status) =>
                    /\ heap'[d].status = heap[d].status
                    /\ heap'[d].progress = heap[d].progress
                    /\ heap'[d].completed_at = heap[d].completed_at]_vars

\* C3's case: a pass has just written another download from the agent's
\* report, at a later time than the one a completed download was completed at
C3_Witness ==
    /\ last.op = "resolved"
    /\ \E d \in downloads :
          /\ d # last.d
          /\ heap[d].status = COMPLETED
          /\ heap[d].completed_at < now
          /\ heap[last.d].status # last.from

\* C4 as the specification states it: a status change made by a
\* reconciliation step follows an edge of the documented graph.
C4_DocumentedEdges ==
    [][(last'.op = "resolved" /\ last'.d \in DOMAIN heap'
            /\ heap'[last'.d].status # last'.from) =>
            <<last'.from, heap'[last'.d].status>> \in
                {<<QUEUED, DOWNLOADING>>, <<DOWNLOADING, EXTRACTING>>,
                 <<DOWNLOADING, COMPLETED>>, <<EXTRACTING, COMPLETED>>,
                 <<QUEUED, PAUSED>>, <<DOWNLOADING, PAUSED>>,
                 <<QUEUED, FAILED>>, <<DOWNLOADING, FAILED>>,
                 <<PAUSED, FAILED>>, <<EXTRACTING, FAILED>>}]_vars

\* C4 as the code has it: a reconciliation step that resolves the package
\* sets the status the report alone dictates, whatever the status was:
\* completed when the package is finished, else downloading when it runs,
\* else extracting or queued when the agent's text says so, else the status
\* it had; a step that resolves nothing leaves the status alone; no step
\* sets failed or paused.
C4_StatusFollowsReport ==
    [][/\ (last'.op = "resolved" /\ last'.d \in DOMAIN heap') =>
            /\ heap'[last'.d].status =
                  IF last'.rep.finished THEN COMPLETED
                  ELSE IF last'.rep.running THEN DOWNLOADING
                  ELSE IF last'.rep.status = PhaseText("extracting") THEN EXTRACTING
                  ELSE IF last'.rep.status \in {PhaseText("queued"), PhaseText("waiting")}
                  THEN QUEUED
                  ELSE last'.from
            /\ heap'[last'.d].status \notin {FAILED, PAUSED}
       /\ last'.op \in ReconSteps =>
            \A d \in (DOMAIN heap) \cap (DOMAIN heap') :
                (last'.op # "resolved" \/ d # last'.d) => heap'[d].status = heap[d].status]_vars

\* C4's case: a step took a download from downloading back to queued
C4_Witness ==
    /\ last.op = "resolved"
    /\ last.from = DOWNLOADING
    /\ heap[last.d].status = QUEUED

\* C5: the lookup by name is made only after the lookup by the stored
\* identifier has missed or when no identifier is stored; a hit by identifier
\* is the package with that identifier, a hit by name the package whose name
\* is the normalized stored name; after a hit by name the stored identifier
\* is the one the agent reports, and a lookup by it in the same list returns
\* the same package.
C5_IdentifierThenName ==
    [][/\ \A p \in Passes :
            (pass'[p].pc = "wait_name" /\ pass'[p] # pass[p]) =>
                \/ /\ pass[p].pc = "wait_uuid"
                   /\ pass'[p].todo = pass[p].todo
                   /\ last'.op = "miss"
                \/ ~Truthy(heap'[Head(pass'[p].todo)].jd_uuid)
       /\ (last'.op = "resolved" /\ last'.by = "uuid") =>
            last'.rep.uuid = heap[last'.d].jd_uuid
       /\ (last'.op = "resolved" /\ last'.by = "name" /\ last'.d \in DOMAIN heap') =>
            /\ \E p \in Passes : pass[p].pc = "wait_name" /\ Head(pass[p].todo) = last'.d
            /\ last'.rep.name = normalize_jd_name(heap[last'.d].jd_package_name)
            /\ heap'[last'.d].jd_uuid = last'.rep.uuid
            /\ last'.again = last'.rep]_vars

\* C5's case: the stored identifier missed, the normalized name (which is
\* not the submitted name) hit, and the identifier was replaced
C5_Witness ==
    /\ last.op = "resolved"
    /\ last.by = "name"
    /\ last.rep.name # heap[last.d].jd_package_name
    /\ heap[last.d].jd_uuid = last.rep.uuid
    /\ heap[last.d].jd_uuid # "0"
    /\ accept[last.d] = "ok"

\* C6: a cleanup pass removes no download that is queued, downloading,
\* paused or extracting.
C6_CleanupKeepsActive ==
    [][last'.op = "cleanup" =>
            \A d \in downloads :
                Active(heap[d].status) =>
                    d \in downloads' /\ d \in DOMAIN file'.data /\ heap'[d] = heap[d]]_vars

\* C6's case: a cleanup pass removed a download and kept an active one whose
\* identifier is a crawl-job id no package carries
C6_Witness ==
    /\ last.op = "cleanup"
    /\ last.removed # {}
    /\ \E d \in downloads :
          /\ d \in last.before
          /\ Active(heap[d].status)
          /\ heap[d].jd_uuid = "0"

\* C7: whenever no handler and no pass is under way, the data file holds
\* exactly the downloads of the in-memory set, each as it is in memory; an
\* accepted download is in both from its creation on, a deleted one is in
\* neither, and no step of a reconciliation pass adds a download to either.
C7_PersistedIsMemory ==
    /\ []((proc = "up" /\ InFlight(accept, pass) = {}) =>
            IF file.state = "complete"
            THEN /\ DOMAIN file.data = downloads
                 /\ \A d \in downloads : LoadItem(file.data[d]) = heap[d]
            ELSE file.state = "absent" /\ downloads = {})
    /\ [][/\ last'.op = "create" =>
                last'.d \in downloads' /\ last'.d \in DOMAIN file'.data
          /\ (last'.op = "delete" /\ last'.d # 0) =>
                last'.d \notin downloads' /\ last'.d \notin DOMAIN file'.data
          /\ last'.op \in ReconSteps =>
                /\ downloads' = downloads
                /\ file'.state = "complete" => DOMAIN file'.data \subseteq downloads]_vars

\* C7's case: after an accept, a pass and a delete, one download is left,
\* completed in memory and in the file
C7_Witness ==
    /\ last.op = "delete"
    /\ last.d # 0
    /\ InFlight(accept, pass) = {}
    /\ \E d \in downloads :
          /\ heap[d].status = COMPLETED
          /\ file.data[d].status = COMPLETED
          /\ d # last.d

\* C8: a data file that holds downloads holds a complete set after every
\* step, a crash in the middle of a persist included.
C8_AllOrNothing ==
    [][(file.state = "complete" /\ DOMAIN file.data # {}) => file'.state = "complete"]_vars

\* C9: no two downloads of the set are for the same accepted link.
C9_OnePerLink ==
    \A d, e \in downloads : heap[d].source_url = heap[e].source_url => d = e

\* C10: no step changes the queue id of a download, a restart included.
C10_QueueIdStable ==
    [][\A d \in (DOMAIN heap) \cap (DOMAIN heap') : heap'[d].nzo_id = heap[d].nzo_id]_vars

\* C10's case: the process restarted with a download that was submitted,
\* correlated again by name and completed
C10_Witness ==
    /\ last.op = "restart"
    /\ \E d \in downloads :
          /\ accept[d] = "ok"
          /\ heap[d].jd_uuid = "1"
          /\ heap[d].status = COMPLETED
          /\ heap[d].nzo_id = NzoId(heap[d].title, heap[d].created_at)

\* C11: a restart that finds no handler under way loads exactly the
\* downloads that were in memory, each with its internal id, queue id,
\* status and agent correlation keys.
C11_ReloadIsMemory ==
    [][(last'.op = "restart" /\ last'.quiet) =>
            /\ downloads' = downloads
            /\ DOMAIN heap' = downloads
            /\ \A d \in downloads :
                  /\ heap'[d].id = heap[d].id
                  /\ heap'[d].nzo_id = heap[d].nzo_id
                  /\ heap'[d].status = heap[d].status
                  /\ heap'[d].jd_uuid = heap[d].jd_uuid
                  /\ heap'[d].jd_package_name = heap[d].jd_package_name]_vars

\* C11's case: a restart loaded a download that has no correlation key and
\* one that was correlated again by name
C11_Witness ==
    /\ last.op = "restart"
    /\ last.quiet
    /\ \E d, e \in downloads :
          /\ heap[d].jd_uuid = None
          /\ heap[d].jd_package_name = NoText
          /\ heap[e].jd_uuid = "1"
          /\ heap[e].status \in {DOWNLOADING, COMPLETED}

\* C12: a cleanup pass removes, from memory and from the data file, every
\* completed download whose output path is missing or is an empty directory
\* when the pass looks at it.
C12_CleanupRemovesImported ==
    [][last'.op = "cleanup" =>
            \A d \in downloads :
                (/\ heap[d].status = COMPLETED
                 /\ heap[d].output_path \in DOMAIN last'.fs
                 /\ \/ last'.fs[heap[d].output_path].kind = "missing"
                    \/ /\ last'.fs[heap[d].output_path].kind = "dir"
                       /\ last'.fs[heap[d].output_path].names = {}) =>
                    /\ d \notin downloads'
                    /\ file'.state = "complete"
                    /\ d \notin DOMAIN file'.data]_vars

\* C12's case: a cleanup pass found an empty directory and removed a download
C12_Witness ==
    /\ last.op = "cleanup"
    /\ last.removed # {}
    /\ \E path \in DOMAIN last.fs : last.fs[path].kind = "dir" /\ last.fs[path].names = {}
    /\ file.state = "complete"
    /\ last.removed \cap DOMAIN file.data = {}

\* C13: a cleanup pass removes a failed download exactly when more than 24
\* hours have passed since its creation.
C13_FailedRemovedWhenOld ==
    [][last'.op = "cleanup" =>
            \A d \in downloads :
                heap[d].status = FAILED =>
                    (d \notin downloads' <=> now - heap[d].created_at > 24 * 3600)]_vars

\* C13's case: a cleanup pass kept a failed download that was exactly 24
\* hours old
C13_Witness ==
    /\ last.op = "cleanup"
    /\ \E d \in downloads :
          /\ heap[d].status = FAILED
          /\ now - heap[d].created_at = 24 * 3600

\* the call under way has built its diversified order
Ranked == verify.pc \in {"gather", "done"} /\ verify.all_links # <<>>

\* the bucket of an episode number: absent and 0 are the season pack
Bucket(episode) == IF episode = NoEpisode THEN 0 ELSE episode
Buckets(links) == {Bucket(links[i].episode) : i \in 1..Len(links)}

\* C14: with E distinct normalized episode numbers among the discovered
\* links, the first E links of the diversified order carry the E episodes
\* once each, in ascending order.
C14_FirstCoverEpisodes ==
    Ranked =>
        LET d == verify.diversified_links
            E == Cardinality(Buckets(verify.all_links))
        IN  /\ Len(d) >= E
            /\ Buckets(SubSeq(d, 1, E)) = Buckets(verify.all_links)
            /\ \A k \in 1..(E - 1) : Bucket(d[k].episode) < Bucket(d[k + 1].episode)

\* C14's case: three links, the first discovered of episode 1, the others a
\* season pack with an absent and with a zero episode number
C14_Witness ==
    /\ Ranked
    /\ Len(verify.all_links) = 3
    /\ verify.all_links[1].episode = 1
    /\ {verify.all_links[2].episode, verify.all_links[3].episode} = {NoEpisode, 0}
    /\ Bucket(verify.diversified_links[1].episode) = 0
    /\ verify.diversified_links[2] = verify.all_links[1]

\* link a is strictly better than link b: lower quality score, then better host
Better(a, b) ==
    \/ quality_score(a.quality) < quality_score(b.quality)
    \/ /\ quality_score(a.quality) = quality_score(b.quality)
       /\ host_rank(a.host) < host_rank(b.host)

\* C15: the quality score puts the UHD class before remux before bluray 1080p
\* before 1080p before 720p before the rest, the host rank puts the premium
\* host before the secondary one before the others, and the representative
\* of an episode is the earliest discovered link of its group that no link
\* of the group beats on (quality score, host rank).
C15_RepresentativeIsBest ==
    /\ \A q \in {QualUltraHD, QualUltraHDLight, Qual4K} :
            quality_score(q) < quality_score(QualRemux)
    /\ quality_score(QualRemux) < quality_score(QualBluray1080)
    /\ quality_score(QualBluray1080) < quality_score(Qual1080)
    /\ quality_score(Qual1080) < quality_score(Qual720)
    /\ \A q \in {QualDvd, NoText} : quality_score(Qual720) < quality_score(q)
    /\ host_rank(Host1Fichier) < host_rank(HostSend)
    /\ host_rank(HostSend) < host_rank(HostOther)
    /\ Ranked =>
        LET all == verify.all_links
            d == verify.diversified_links
        IN  \A k \in 1..Cardinality(Buckets(all)) :
                \E i \in 1..Len(all) :
                    /\ all[i] = d[k]
                    /\ \A j \in 1..Len(all) :
                          Bucket(all[j].episode) = Bucket(all[i].episode) =>
                              /\ ~Better(all[j], all[i])
                              /\ ~Better(all[i], all[j]) => i <= j

\* C15's case: two links of one episode and one quality, the second on the
\* better host, is the representative; and two links that tie
C15_Witness ==
    /\ Ranked
    /\ Len(verify.all_links) = 2
    /\ Bucket(verify.all_links[1].episode) = Bucket(verify.all_links[2].episode)
    /\ verify.all_links[1].id # verify.all_links[2].id
    /\ quality_score(verify.all_links[1].quality) = quality_score(verify.all_links[2].quality)
    /\ verify.all_links[1].host = HostOther
    /\ verify.all_links[2].host = HostSend
    /\ verify.diversified_links[1] = verify.all_links[2]

\* C16: the diversified order carries no link id twice and carries every
\* discovered link id (stated for discovered lists whose links all have an
\* id and in which two links with the same id are the same record).
C16_NoIdTwiceEveryId ==
    (/\ Ranked
     /\ \A i, j \in 1..Len(verify.all_links) :
            /\ verify.all_links[i].id # NoId
            /\ verify.all_links[i].id = verify.all_links[j].id =>
                    verify.all_links[i] = verify.all_links[j]) =>
        LET d == verify.diversified_links
        IN  /\ \A a, b \in 1..Len(d) : a # b => d[a].id # d[b].id
            /\ {d[a].id : a \in 1..Len(d)} =
               {verify.all_links[i].id : i \in 1..Len(verify.all_links)}

\* C17: while a call probes, every task of an earlier batch has returned
\* before any task of a later batch has started, and the probes in flight
\* are never more than the batch size.
C17_BatchesInSequence ==
    verify.pc = "gather" =>
        LET t == verify.tasks
            BatchOf(j) == (j - 1) \div verify.batch_size
        IN  /\ \A j, k \in 1..Len(t) :
                  (BatchOf(j) < BatchOf(k) /\ t[k].st # "pending") => t[j].st = "done"
            /\ Cardinality({j \in 1..Len(t) : t[j].st = "flight"}) <= verify.batch_size

\* C17's case: batches of two, both probes of the first batch answered, the
\* probe of the second batch in flight
C17_Witness ==
    /\ verify.pc = "gather"
    /\ verify.batch_size = 2
    /\ Len(verify.tasks) = 3
    /\ verify.tasks[1].st = "done" /\ verify.tasks[1].probed
    /\ verify.tasks[2].st = "done" /\ verify.tasks[2].probed
    /\ verify.tasks[3].st = "flight"

\* the smaller of two numbers
Least(a, b) == IF a < b THEN a ELSE b

\* C18 as the specification states it: a call that has returned has probed
\* each of the first min(maxToCheck, number of discovered links) links of
\* the diversified order.
C18_ProbesExactlyFirst ==
    (verify.pc = "done" /\ verify.all_links # <<>>) =>
        LET n == Least(verify.max_links, Len(verify.all_links))
        IN  /\ Len(verify.tasks) = n
            /\ \A j \in 1..n : verify.tasks[j].probed

\* C18: the links a call considers are the first min(maxToCheck, length of
\* the diversified order) links of that order; it probes none of them twice
\* and no other link, never a link without id, and when it has returned it
\* has probed each of them that has an id unless the session could not be
\* authenticated at its turn; so it sends at most maxToCheck probes.
C18_ProbesWithinBudget ==
    Ranked =>
        LET t == verify.tasks
            n == Least(verify.max_links, Len(verify.diversified_links))
        IN  /\ Len(t) = n
            /\ verify.links_to_verify = SubSeq(verify.diversified_links, 1, n)
            /\ Cardinality({j \in 1..Len(t) : t[j].probed}) <= verify.max_links
            /\ \A j \in 1..Len(t) : t[j].probed => verify.links_to_verify[j].id # NoId
            /\ verify.pc = "done" =>
                  \A j \in 1..Len(t) :
                      (verify.links_to_verify[j].id # NoId /\ t[j].auth) => t[j].probed

\* C18's case: three links in the diversified order, a budget of two, the
\* call has returned and the first two were probed
C18_Witness ==
    /\ verify.pc = "done"
    /\ Len(verify.diversified_links) = 3
    /\ verify.max_links = 2
    /\ verify.tasks[1].probed
    /\ verify.tasks[2].probed

\* what a probe's answer says: a success for a live record, and its URL
Alive(r) ==
    /\ ~r.raises
    /\ r.status_code = 200
    /\ r.deleted_at = None
    /\ r.active = 1
    /\ (IF r.directDL \in {NoText, <<>>} THEN r.lien ELSE r.directDL) \notin {NoText, <<>>}
ResolvedUrl(r) == IF r.directDL \in {NoText, <<>>} THEN r.lien ELSE r.directDL

\* the positions of the batches that have returned, and those among them
\* whose probe found a live record
Gathered == 1..Least(verify.i, Len(verify.tasks))
AlivePositions ==
    SelectSeq([j \in Gathered |-> j],
              LAMBDA j : verify.tasks[j].probed /\ Alive(verify.tasks[j].resp))

\* C19 as the specification states it: the links returned are the probed
\* links whose probe found a live record, each with the URL its probe
\* resolved.
C19_CarriesResolvedUrl ==
    Ranked =>
        /\ Len(verify.verified_links) = Len(AlivePositions)
        /\ \A k \in 1..Len(AlivePositions) :
              /\ verify.verified_links[k].id = verify.links_to_verify[AlivePositions[k]].id
              /\ verify.verified_links[k].download_url =
                    ResolvedUrl(verify.tasks[AlivePositions[k]].resp)

\* C19: the links returned are, in the diversified order, the probed links
\* whose probe answered with a success for a record that is not deleted, is
\* active and has a non-empty URL; each is marked verified and carries that
\* URL, with the host part send.cm/ replaced by send.now/.
C19_ReturnedWereAlive ==
    Ranked =>
        /\ Len(verify.verified_links) = Len(AlivePositions)
        /\ \A k \in 1..Len(AlivePositions) :
              LET url == ResolvedUrl(verify.tasks[AlivePositions[k]].resp)
              IN  /\ verify.verified_links[k].id = verify.links_to_verify[AlivePositions[k]].id
                  /\ verify.verified_links[k].verified
                  /\ verify.verified_links[k].download_url =
                        (IF url = UrlSendCm THEN <<"https://", "send.now/", "a">> ELSE url)

\* C19's case: the call has returned a link whose URL was rewritten and has
\* dropped a link whose probe was answered
C19_Witness ==
    /\ verify.pc = "done"
    /\ \E k \in 1..Len(verify.verified_links) :
          verify.verified_links[k].download_url = <<"https://", "send.now/", "a">>
    /\ \E j \in 1..Len(verify.tasks) :
          verify.tasks[j].probed /\ ~verify.tasks[j].kept /\ ~verify.tasks[j].resp.raises

\* C20: a listing returns; it never sends more than 50 requests, and it
\* sends another request only after a page of at least 42 records.
C20_ListingTerminates ==
    /\ <>(listing.pc = "done")
    /\ [](listing.requests <= 50)
    /\ []((listing.pc = "request" /\ listing.requests > 0) => listing.lastlen >= 42)

\* C20's case: the listing returned after its fiftieth request
C20_Witness ==
    /\ listing.pc = "done"
    /\ listing.requests = 50
    /\ listing.fetched >= 50 * 42

\* C21: a listing that ends on an answer with a non-success HTTP status
\* returns no link.
C21_NonSuccessReturnsEmpty ==
    (listing.pc = "done" /\ listing.status_code \notin {0, 200}) => listing.fetched = 0

\* C22: without credential material no request goes to the upstream and
\* every catalog operation that has returned returned its empty value.
C22_NoCredentialsNoRequest ==
    (session # NoCall /\ (session.settings.name = "" \/ session.settings.value = "")) =>
        /\ session.auths = 0
        /\ \A c \in DOMAIN session.callers :
              /\ ~session.callers[c].sent
              /\ session.callers[c].pc \in {"idle", "done"}
              /\ session.callers[c].pc = "done" => ~session.callers[c].ok

\* C22's case: a cookie name without value is configured, and operations of
\* two kinds have returned after time has passed
C22_Witness ==
    /\ session # NoCall
    /\ session.settings.name # ""
    /\ session.settings.value = ""
    /\ session.now > 0
    /\ \E c, d \in DOMAIN session.callers :
          /\ session.callers[c].pc = "done" /\ session.callers[c].op = "search"
          /\ session.callers[d].pc = "done" /\ session.callers[d].op = "probe"

\* the window of the session cache is closed
WindowClosed(s) == s.valid_until = NoTime \/ s.now >= s.valid_until

C24_RaceIsHarmless ==
    /\ []((session # NoCall /\ session.auths > 0) =>
            /\ \A c \in DOMAIN session.callers :
                  session.callers[c].pc = "done" =>
                      /\ session.callers[c].ok
                      /\ session.callers[c].sent
                      /\ session.callers[c].jar.remember
                      /\ session.callers[c].jar.session # 0
            /\ (\A c \in DOMAIN session.callers : session.callers[c].pc # "auth") =>
                  /\ session.dicts[session.cookies].remember
                  /\ session.dicts[session.cookies].session # 0
                  /\ session.dicts[session.cookies].session = session.dicts[session.cookies].xsrf
                  /\ session.xsrf_token = session.dicts[session.cookies].xsrf
                  /\ session.valid_until # NoTime)
    /\ [][\A c \in DOMAIN session.callers :
            (session.callers[c].pc = "auth" /\ session'.callers[c].pc = "done") =>
                /\ SessionValid(session')
                /\ session'.valid_until = session'.now + SessionWindow]_vars

\* C24's case: three callers found the window closed, each replaced the
\* cookie dict, and all have returned
C24_Witness ==
    /\ session # NoCall
    /\ session.auths = 3
    /\ session.now = 0
    /\ \A c \in DOMAIN session.callers : session.callers[c].pc = "done"
    /\ session.dicts[session.cookies].session # session.cookies

\* C25: once shutdown has asked for the cancellation the background task
\* stops, and from then on the data file is never left truncated.
C25_ShutdownClean ==
    /\ (proc = "stopping") ~> (proc = "stopped")
    /\ [](proc \in {"stopping", "stopped"} => file.state # "truncated")

\* C25's case: the process has stopped after a reconciliation pass had
\* written a download that is under way
C25_Witness ==
    /\ proc = "stopped"
    /\ file.state = "complete"
    /\ \E d \in downloads : heap[d].status = DOWNLOADING /\ file.data[d].status = DOWNLOADING

\* the answers that refuse a request for its key
UnauthorizedResponses == {"API Key Incorrect", "Incorrect API Key", "401"}

\* capability discovery and the version query
IsOpen(req) ==
    \/ req.path = "/api" /\ req.mode = "" /\ req.t = "caps"
    \/ req.path \in {"/api", "/sabnzbd/api"} /\ req.mode = "version"

\* C26: a facade request whose key is not the shared secret gets the
\* unauthorized answer of its endpoint, unless it is capability discovery or
\* the version query, and leaves the download set, the agent and the catalog
\* session as they were.
C26_WrongKeyRejected ==
    [][(feed'.n # feed.n /\ feed'.req.apikey # api_key) =>
          /\ <<heap, downloads, file, nextId, accept, pass>>' = <<heap, downloads, file, nextId, accept, pass>>
          /\ session' = session
          /\ IF IsOpen(feed'.req) THEN feed'.response \in {"caps", "version", "Internal Server Error"}
             ELSE feed'.response \in UnauthorizedResponses]_vars

\* the UHD tier of the taxonomy for films and for series
UhdCategory(media_type) == IF media_type = MOVIE THEN "2045" ELSE "5045"

\* C27: an item whose canonical quality is 2160p-class carries the UHD
\* category of its media kind (2045 for a film, 5045 for a series).
C27_UhdTier ==
    (feed.pc = "item" /\ feed.media_type \in {MOVIE, TV} /\ Contains(feed.item.quality, "2160p"))
        => feed.item.category = UhdCategory(feed.media_type)

\* the text names the UHD resolution
NamesUhd(raw) == ContainsAny(str_lower(raw), {"2160", "4k", "uhd"})

\* the text names a DVD and no release type that is looked for before it
ReadsAsDvd(raw) ==
    /\ Contains(str_lower(raw), "dvd")
    /\ ~ContainsAny(str_lower(raw), {"remux", "bluray", "bdrip", "brrip", "webrip",
                                     "hdlight", "web-dl", "webdl", "web ", "hdtv"})

\* C28 as stated: a quality of the table is normalised to its mapped value,
\* and every other non-empty text naming 2160, 4k or uhd to a quality that
\* carries "2160p".
C28_TableAndUhd ==
    feed.pc = "item" =>
        LET raw == feed.link.quality
        IN  /\ raw \in DOMAIN QUALITY_MAPPING => feed.item.quality = QUALITY_MAPPING[raw]
            /\ (raw \notin DOMAIN QUALITY_MAPPING /\ raw # "" /\ NamesUhd(raw))
                  => Contains(feed.item.quality, "2160p")

\* C28 as amended: a quality of the table is normalised to its mapped value,
\* and every other non-empty text naming 2160, 4k or uhd to a quality that
\* carries "2160p", except that a text read as a DVD is normalised to "DVD".
C28_TableAndUhdUnlessDvd ==
    feed.pc = "item" =>
        LET raw == feed.link.quality
        IN  /\ raw \in DOMAIN QUALITY_MAPPING => feed.item.quality = QUALITY_MAPPING[raw]
            /\ (raw \notin DOMAIN QUALITY_MAPPING /\ raw # "" /\ NamesUhd(raw))
                  => IF ReadsAsDvd(raw) THEN feed.item.quality = "DVD"
                     ELSE Contains(feed.item.quality, "2160p")

\* C28's case: an item of a link whose quality is not in the table and
\* names 4k beside a release type
C28_Witness ==
    /\ feed.pc = "item"
    /\ feed.link.quality = "WEBRip 4k"
    /\ feed.item.quality = "WEBRip-2160p"

\* what the claim's priority reads: the note's size, the provider's size
\* and the estimate of the link in hand
NoteSize == extract_size_from_nfo(feed.link.nfo)
Estimate ==
    estimate_file_size(feed.link.quality, feed.media_type,
                       feed.link.episode = NoEpisode \/ feed.link.episode = 0)
HalfGbNote == <<[nfo |-> SizeLine("File size", "0.5", "GB")]>>

\* C29 as stated: the item's size is the note's size if there is one of at
\* least 100 MB, else the provider's size if it is at least 100 MB, else
\* the estimate; a note of 0.5 GB gives 0.5 x 1024^3 bytes, and 50 MB from
\* the provider without notes give the estimate.
C29_SizePriority ==
    feed.pc = "item" =>
        /\ feed.item.size =
              IF NoteSize # NoSize /\ ~SizeLess(NoteSize, Bytes(0, SizeFloor)) THEN NoteSize
              ELSE IF ~SizeLess(feed.link.size, Bytes(0, SizeFloor)) THEN feed.link.size
              ELSE Estimate
        /\ feed.link.nfo = HalfGbNote => feed.item.size = Bytes(0, 512 * MiB)
        /\ (feed.link.nfo = <<>> /\ feed.link.size = Bytes(0, 50 * 1000 * 1000))
              => feed.item.size = Estimate

\* C29 as amended: the provider's size is taken only if it is greater than
\* 100 MB, so a provider size of exactly the floor gives the estimate.
C29_SizePriorityAboveFloor ==
    feed.pc = "item" =>
        /\ feed.item.size =
              IF NoteSize # NoSize /\ ~SizeLess(NoteSize, Bytes(0, SizeFloor)) THEN NoteSize
              ELSE IF SizeLess(Bytes(0, SizeFloor), feed.link.size) THEN feed.link.size
              ELSE Estimate
        /\ feed.link.nfo = HalfGbNote => feed.item.size = Bytes(0, 512 * MiB)
        /\ (feed.link.nfo = <<>> /\ feed.link.size = Bytes(0, 50 * 1000 * 1000))
              => feed.item.size = Estimate

\* C29's case: a link without notes whose provider size is exactly the
\* floor got the estimate
C29_Witness ==
    /\ feed.pc = "item"
    /\ feed.link.nfo = <<>>
    /\ feed.link.size = Bytes(0, SizeFloor)
    /\ feed.item.size = Estimate
    /\ feed.item.size # feed.link.size

\* C30: a reconciliation step that resolves a package sets completed when
\* the package is finished, even if it is reported running; for a package
\* that is not finished it sets downloading when the agent reports it
\* running, whatever the text; otherwise extracting when the text contains
\* "extract", otherwise queued when it contains "queue" or "wait", and it
\* leaves the status as it was for any other text.
C30_RunningThenText ==
    [][(last'.op = "resolved" /\ last'.d \in DOMAIN heap') =>
          LET text == Lower(last'.rep.status)
              extract == Contains(text, <<"e", "x", "t", "r", "a", "c", "t">>)
              queue == Contains(text, <<"q", "u", "e", "u", "e">>)
              wait == Contains(text, <<"w", "a", "i", "t">>)
              status == heap'[last'.d].status
          IN  /\ last'.rep.finished => status = COMPLETED
              /\ (~last'.rep.finished /\ last'.rep.running) => status = DOWNLOADING
              /\ (~last'.rep.finished /\ ~last'.rep.running /\ extract) => status = EXTRACTING
              /\ (~last'.rep.finished /\ ~last'.rep.running /\ ~extract /\ (queue \/ wait))
                    => status = QUEUED
              /\ (~last'.rep.finished /\ ~last'.rep.running /\ ~extract /\ ~queue /\ ~wait)
                    => status = last'.from]_vars

\* C30's case: a package that is running while its text says it is
\* extracting was resolved for a download that was extracting, which is now
\* downloading
C30_Witness ==
    /\ last.op = "resolved"
    /\ ~last.rep.finished
    /\ last.rep.running
    /\ Contains(Lower(last.rep.status), <<"e", "x", "t", "r", "a", "c", "t">>)
    /\ last.from = EXTRACTING
    /\ heap[last.d].status = DOWNLOADING

\* C31: the paused status is reachable by reconciliation: a step that
\* resolves a queued or downloading download from a report the agent marks
\* paused (not finished, not running, the text says paused) leaves the
\* download in status paused.
C31_PausedReachable ==
    [][(/\ last'.op = "resolved"
        /\ last'.d \in DOMAIN heap'
        /\ last'.from \in {QUEUED, DOWNLOADING}
        /\ ~last'.rep.finished
        /\ ~last'.rep.running
        /\ Contains(Lower(last'.rep.status), <<"p", "a", "u", "s", "e">>))
            => heap'[last'.d].status = PAUSED]_vars

\* the identifier of the request was not resolved to a title
IdNotResolved == feed.pc \in {"auth", "catalog", "done"} /\ feed.which # "" /\ ~Truthy(feed.title)

\* the catalog was searched for and gave nothing: the client is not
\* authenticated, or the search request failed
CatalogFailed ==
    /\ feed.pc = "done"
    /\ Truthy(feed.search_query)
    /\ feed.answer.raises \/ feed.answer.status_code # HttpOk

\* C32: a search that fails (the catalog is unavailable or the client
\* unauthenticated, or the request's external identifier is not resolved to
\* a title) is answered with an empty result set or with the
\* authentication-error payload: never with entries that do not come from
\* the catalog, never with a fault.
C32_FailuresAreEmpty ==
    (feed.pc = "done" /\ (IdNotResolved \/ CatalogFailed)) =>
        \/ feed.response.kind = "Incorrect API Key"
        \/ /\ feed.response.kind = "items"
           /\ CatalogFailed => feed.response.items = <<>>
           /\ \A i \in 1..Len(feed.response.items) :
                 /\ Len(feed.response.items[i].guid) >= 11
                 /\ SubSeq(feed.response.items[i].guid, 1, 11) = "darkiworld-"

\* C33: a reconciliation step that finds the package neither by the stored
\* identifier nor by the package name leaves the download as it was (status,
\* progress, sizes, output path, stored identifier and every other field),
\* keeps it in the set and writes nothing to the data file; so does the
\* step in which the identifier alone has missed.
C33_LossLeavesUnchanged ==
    [][last'.op \in {"unresolved", "miss"} =>
          /\ last'.d \in downloads'
          /\ downloads' = downloads
          /\ heap'[last'.d] = heap[last'.d]
          /\ file' = file]_vars

\* C33's case: a download that a report had made downloading is looked for
\* by its identifier and by its name, the agent lists neither, and it is
\* still downloading
C33_Witness ==
    /\ last.op = "unresolved"
    /\ last.d \in downloads
    /\ Truthy(heap[last.d].jd_uuid)
    /\ TruthyText(heap[last.d].jd_package_name)
    /\ heap[last.d].status = DOWNLOADING
    /\ heap[last.d].progress > 0
    /\ file.state = "complete"
    /\ file.data[last.d].status = DOWNLOADING

\* C34: a series search that requests an episode returns a link for that
\* episode whenever the listing holds a link for it that the upstream would
\* confirm alive, whatever the other links of the listing and whatever the
\* verification budget.
C34_EpisodeNotStarved ==
    (verify.pc = "returned"
        /\ \E i \in 1..Len(verify.all_links) :
              /\ verify.all_links[i].episode = verify.episode
              /\ verify.all_links[i].id # NoId
              /\ verify_link_availability(verify.upstream[verify.all_links[i].id]))
    => \E k \in 1..Len(verify.links) : verify.links[k].episode = verify.episode

\* C35: no two downloads that are in the set at the same time share a queue
\* id, so a lookup by a download's queue id returns that download.
C35_QueueIdsDistinct ==
    \A d \in downloads :
        /\ \A other \in downloads : other # d => heap[other].nzo_id # heap[d].nzo_id
        /\ get_download([kind |-> "nzo", v |-> heap[d].nzo_id], heap, downloads) = d

\* a download carries a key as its internal id or as its queue id
Carries(d, key) ==
    \/ key.kind = "id" /\ key.v = <<ToString(d)>>
    \/ key.kind = "nzo" /\ key.v = heap[d].nzo_id

\* C36: a delete request for one id removes exactly one download, which
\* carries that id as its internal id or its queue id, from the set in
\* memory and from the data file, and leaves every other download as it
\* was; for an id no download carries it changes nothing; a delete-all
\* request leaves the set and the data file empty.
C36_DeleteRemovesOne ==
    [][/\ (last'.op = "delete" /\ last'.d # 0) =>
            /\ last'.d \in downloads
            /\ Carries(last'.d, last'.key)
            /\ downloads' = downloads \ {last'.d}
            /\ \A e \in downloads' : heap'[e] = heap[e]
            /\ file'.state = "complete"
            /\ DOMAIN file'.data = downloads'
            /\ \A e \in downloads' : LoadItem(file'.data[e]) = heap[e]
       /\ (last'.op = "delete" /\ last'.d = 0) =>
            /\ \A e \in downloads : ~Carries(e, last'.key)
            /\ <<heap, downloads, file>>' = <<heap, downloads, file>>
       /\ last'.op = "clear" =>
            /\ downloads' = {}
            /\ file'.state = "complete"
            /\ DOMAIN file'.data = {}]_vars

\* C36's case: of two downloads the first was deleted by its queue id, and
\* the second is in the set and in the data file as it was
C36_Witness ==
    /\ last.op = "delete"
    /\ last.d = 1
    /\ last.key.kind = "nzo"
    /\ downloads = {2}
    /\ file.state = "complete"
    /\ DOMAIN file.data = {2}
    /\ LoadItem(file.data[2]) = heap[2]
    /\ accept[2] = "ok"

\* C37: in every state each download of the set is listed by exactly one of
\* the two enumerations, the active queue or the history, and once; neither
\* lists anything that is not in the set.
C37_QueueOrHistory ==
    LET queue == get_active_downloads(heap, downloads)
        history == get_completed_downloads(heap, downloads)
    IN  /\ \A d \in downloads :
              Cardinality({i \in 1..Len(queue) : queue[i] = d})
                + Cardinality({i \in 1..Len(history) : history[i] = d}) = 1
        /\ Range(queue) \cup Range(history) \subseteq downloads
        /\ \A i \in 1..Len(queue) :
              heap[queue[i]].status \in {QUEUED, DOWNLOADING, PAUSED, EXTRACTING}
        /\ \A i \in 1..Len(history) : heap[history[i]].status \in {COMPLETED, FAILED}

\* C37's case: a download that is being extracted is in the queue and not
\* in the history
C37_Witness ==
    \E d \in downloads :
        /\ heap[d].status = EXTRACTING
        /\ get_active_downloads(heap, downloads) = <<d>>
        /\ get_completed_downloads(heap, downloads) = <<>>

\* C38: every item emitted for a catalog link has a size of at least
\* 100,000,000 bytes, whatever the note's size, the provider's size, the
\* quality text, the media kind and the season-pack flag.
C38_SizeAtLeastFloor ==
    feed.pc = "item" =>
        /\ feed.item.size # NoSize
        /\ ~SizeLess(feed.item.size, Bytes(0, SizeFloor))

\* C38's case: the note's size and the provider's size are both under the
\* floor, and the item carries the estimate for a single episode
C38_Witness ==
    /\ feed.pc = "item"
    /\ feed.media_type = TV
    /\ feed.link.episode = 1
    /\ extract_size_from_nfo(feed.link.nfo) # NoSize
    /\ SizeLess(extract_size_from_nfo(feed.link.nfo), Bytes(0, SizeFloor))
    /\ feed.link.size = Bytes(0, 50 * 1000 * 1000)
    /\ feed.item.size = estimate_file_size(feed.link.quality, TV, FALSE)
    /\ SizeLess(Bytes(0, SizeFloor), feed.item.size)

=============================================================================
